---------------------------- MODULE Spec2Model ----------------------------
(***************************************************************************)
(* A model of the coderlm code-intelligence server: the symbol table and   *)
(* its secondary indices, the project registry and the sessions, the REPL  *)
(* buffers, the semantic chunker and the history compactor.                *)
(*                                                                         *)
(* Each subsystem has its own specification (SpecTable, SpecInsert,        *)
(* SpecRegistry, SpecBuffer, SpecChunk, SpecHistory); the variables of the *)
(* other subsystems stay at their initial value under it.                  *)
(***************************************************************************)
EXTENDS Integers, Sequences, FiniteSets, TLC

VARIABLES
    \* symbols/mod.rs SymbolTable
    symbols,             \* primary store: key "file::name" -> Symbol
    by_name,             \* name -> set of primary keys
    by_file,             \* file -> set of primary keys
    reverse_call_graph,  \* callee name -> sequence of CallerRef
    lastOp,              \* the last completed SymbolTable call
    inflight,            \* per thread: the insert it is in the middle of
    \* server/state.rs AppState, server/session.rs Session
    projects,            \* project registry: root -> Project
    sessions,            \* session id -> Session
    req,                 \* per handler task: where its create_session is
    now,                 \* Utc::now()
    nextSid,             \* the next fresh session id (uuid v4)
    \* server/session.rs ReplState, ops/repl.rs
    fileText,            \* the bytes of the indexed file "a.x" on disk
    buffers,             \* repl.buffers: name -> Buffer
    bufOp,               \* the last buffer call and its outcome
    \* ops/repl.rs semantic_chunks
    chFile,              \* the file asked for
    chSource,            \* its bytes
    chSymbols,           \* list_by_file(file), sorted by byte_range.0
    chMax,               \* max_chunk_bytes
    chPc,                \* "call", "simple" (inside simple_chunks), "done"
    chStart,             \* simple_chunks: start
    chunks,              \* the chunks pushed so far
    chResult,            \* "none", "ok", "err"
    \* server/session.rs Session, ops/history.rs
    session,             \* one session: its history and last_active
    hClock,              \* Utc::now()
    hOp,                 \* the last history call and its outcome
    \* symbols/parser.rs extract_all_symbols
    files,               \* file_tree.files: path -> language, symbols_extracted
    disk,                \* what reading and parsing each file gives
    xt,                  \* the extraction task: where it is, what it holds
    \* server/routes.rs handlers
    http,                \* the last request handled and its answer
    notes,               \* the annotations of the files and symbols of /p1
    \* server/session.rs ReplState behind its Arc
    heap,                \* address -> ReplState
    own,                 \* per session: what its own requests alone make
    replOp,              \* the last REPL request and its answer
    \* index/pdf.rs
    pdfFs,               \* the source PDF, its cache file and the clock
    pdfOp,               \* the last call on them and its outcome
    \* server/routes.rs: the annotation load create_session spawns
    ann                  \* saved and attached symbol definitions, the load

tableVars == <<symbols, by_name, by_file, reverse_call_graph, lastOp, inflight>>

regVars == <<projects, sessions, req, now, nextSid>>

bufVars == <<fileText, buffers, bufOp>>

chunkVars == <<chFile, chSource, chSymbols, chMax, chPc, chStart, chunks, chResult>>

histVars == <<session, hClock, hOp>>

extVars == <<files, disk, xt>>

routeVars == <<http, notes>>

replVars == <<heap, own, replOp>>

pdfVars == <<pdfFs, pdfOp>>

annVars == <<ann>>

\* The subsystems outside the request handlers.
auxVars == <<pdfVars, annVars>>

vars ==
    <<tableVars, regVars, bufVars, chunkVars, histVars, extVars, routeVars,
      replVars, auxVars>>

\* What the calls of one subsystem leave alone: the other subsystems.
notTable ==
    <<regVars, bufVars, chunkVars, histVars, extVars, routeVars, replVars, auxVars>>
notRegistry ==
    <<tableVars, bufVars, chunkVars, histVars, extVars, routeVars, replVars, auxVars>>
notBuffer ==
    <<tableVars, regVars, chunkVars, histVars, extVars, routeVars, replVars, auxVars>>
notChunk ==
    <<tableVars, regVars, bufVars, histVars, extVars, routeVars, replVars, auxVars>>
notHistory ==
    <<tableVars, regVars, bufVars, chunkVars, extVars, routeVars, replVars, auxVars>>
notExtract ==
    <<regVars, bufVars, chunkVars, histVars, routeVars, replVars, auxVars>>
notPdf ==
    <<tableVars, regVars, bufVars, chunkVars, histVars, extVars, routeVars,
      replVars, annVars>>
notAnnotate ==
    <<regVars, bufVars, chunkVars, histVars, routeVars, replVars, pdfVars>>
notRoutes ==
    <<tableVars, chunkVars, histVars, extVars, replVars, auxVars, req, nextSid, fileText,
      bufOp>>

-----------------------------------------------------------------------------
(* Bounds *)

MaxLine == 2        \* line numbers of symbols and call sites are 1..MaxLine
MaxCallers == 2     \* call sites recorded per callee
MaxProjects == 2    \* the max_projects the server was started with
MaxSessions == 3    \* session ids minted in one run
MaxText == 2        \* bytes of a short file or of a created buffer
MaxArg == 2         \* start and end arguments are 0..MaxArg or a default
MaxSource == 4      \* bytes of a file given to semantic_chunks
MaxSyms == 2        \* symbols of that file
MaxBudget == 2      \* max_chunk_bytes is 0..MaxBudget or the default
MaxChunks == 4      \* chunks pushed by one call of simple_chunks
MaxStamp == 5       \* history entries recorded in one run of the session
MaxKeep == 2        \* keep_recent is 0..MaxKeep or the default
MaxLimit == 2       \* the limit of a search is 0..MaxLimit or the default
MaxExtracted == 2   \* symbols the extractor finds in one file
MaxPasses == 2      \* runs of extract_all_symbols on one project
MaxClock == 5       \* readings of the clock in one run
MaxCalls == 3       \* calls of add_caller in one run
MaxRequests == 3    \* REPL requests in one run
MaxPdfClock == 3    \* instants of the file system's clock
MaxEdits == 2       \* revisions of the PDF saved after the first

-----------------------------------------------------------------------------
(* DashMap<K, V> as a function whose domain is the set of present keys *)

MapPut(m, k, v) == [x \in (DOMAIN m) \cup {k} |-> IF x = k THEN v ELSE m[x]]

MapRemove(m, k) == [x \in (DOMAIN m) \ {k} |-> m[x]]

EmptyMap == [x \in {} |-> {}]

-----------------------------------------------------------------------------
(* The project registry and the sessions.  get_or_create_project, the     *)
(* eviction and touch_project (server/state.rs) follow section 4.11 of the *)
(* design document; the handlers that call them are server/routes.rs.      *)

Roots == {"/p1", "/p2", "/p3"}

Tasks == {"h1", "h2"}

Idle == [pc |-> "idle", root |-> "", result |-> "none"]

RegistryInit ==
    /\ projects = EmptyMap
    /\ sessions = EmptyMap
    /\ req = [h \in Tasks |-> Idle]
    /\ now = 0
    /\ nextSid = 1

\* Projects no live session points at.
Evictable(ps, ss) ==
    {r \in DOMAIN ps : \A sid \in DOMAIN ss : ss[sid].project_path # r}

\* Of those, the ones with the oldest last_active.
Oldest(ps, cand) ==
    {r \in cand : \A q \in cand : ps[r].last_active <= ps[q].last_active}

\* RegistryAfterInsert with the cap compared one off: a registry that is
\* full still takes the project without an eviction.
RegistryAfterInsertOffByOne(ps, ss, root, t) ==
    IF root \in DOMAIN ps \/ Cardinality(DOMAIN ps) <= MaxProjects
    THEN {MapPut(ps, root, [last_active |-> t])}
    ELSE {MapPut(MapRemove(ps, victim), root, [last_active |-> t]) :
             victim \in Oldest(ps, Evictable(ps, ss))}

\* Section 4.11, the insertion of a new project: the registries it may
\* leave (none when the project is refused).  "If insertion would exceed
\* max_projects, evict the project with the oldest last_active that has no
\* live sessions pointing at it; if none qualifies, refuse".
RegistryAfterInsert(ps, ss, root, t) ==
    IF root \in DOMAIN ps \/ Cardinality(DOMAIN ps) < MaxProjects
    THEN {MapPut(ps, root, [last_active |-> t])}
    ELSE {MapPut(MapRemove(ps, victim), root, [last_active |-> t]) :
             victim \in Oldest(ps, Evictable(ps, ss))}

\* create_session, `state.get_or_create_project(&cwd_path)?`, first half:
\* the registry is looked up; a project that is present is returned, for
\* one that is absent the directory is walked and indexed.
CreateSessionLookup(h, root) ==
    /\ req[h].pc = "idle"
    /\ req' = [req EXCEPT ![h] =
                 [pc |-> IF root \in DOMAIN projects THEN "store" ELSE "insert",
                  root |-> root, result |-> "none"]]
    /\ UNCHANGED <<projects, sessions, now, nextSid>>
    /\ UNCHANGED notRegistry

\* get_or_create_project, second half: the new project enters the registry
\* or is refused; on refusal `?` ends the handler.
CreateSessionInsert(h) ==
    /\ req[h].pc = "insert"
    /\ now < MaxClock
    /\ LET after == RegistryAfterInsert(projects, sessions, req[h].root, now)
       IN  IF after = {}
           THEN /\ req' = [req EXCEPT ![h] =
                             [Idle EXCEPT !.result = "resource_exhausted"]]
                /\ UNCHANGED projects
           ELSE /\ projects' \in after
                /\ req' = [req EXCEPT ![h].pc = "store"]
    /\ now' = now + 1
    /\ UNCHANGED <<sessions, nextSid>>
    /\ UNCHANGED notRegistry

\* create_session, `state.inner.sessions.insert(id.clone(), session)`
CreateSessionStore(h) ==
    /\ req[h].pc = "store"
    /\ nextSid <= MaxSessions
    /\ now < MaxClock
    /\ sessions' = MapPut(sessions, nextSid,
                          [project_path |-> req[h].root, last_active |-> now])
    /\ nextSid' = nextSid + 1
    /\ now' = now + 1
    /\ req' = [req EXCEPT ![h] = [Idle EXCEPT !.result = "ok"]]
    /\ UNCHANGED projects
    /\ UNCHANGED notRegistry

\* delete_session
DeleteSession(sid) ==
    /\ sid \in DOMAIN sessions
    /\ sessions' = MapRemove(sessions, sid)
    /\ UNCHANGED <<projects, req, now, nextSid>>
    /\ UNCHANGED notRegistry

\* require_project: the session's project is found, touch_project and the
\* session's last_active are set to the time of the request.
RequireProject(sid) ==
    /\ sid \in DOMAIN sessions
    /\ sessions[sid].project_path \in DOMAIN projects
    /\ now < MaxClock
    /\ projects' = MapPut(projects, sessions[sid].project_path,
                          [last_active |-> now])
    /\ sessions' = MapPut(sessions, sid,
                          [sessions[sid] EXCEPT !.last_active = now])
    /\ now' = now + 1
    /\ UNCHANGED <<req, nextSid>>
    /\ UNCHANGED notRegistry

RegistryNext ==
    \/ \E h \in Tasks, root \in Roots : CreateSessionLookup(h, root)
    \/ \E h \in Tasks : CreateSessionInsert(h)
    \/ \E h \in Tasks : CreateSessionStore(h)
    \/ \E sid \in 1..MaxSessions : DeleteSession(sid)
    \/ \E sid \in 1..MaxSessions : RequireProject(sid)

-----------------------------------------------------------------------------
(* Text.  A String is its sequence of UTF-8 bytes; the texts of the model  *)
(* are made of "a" (97), "\n" (10) and the two-byte character U+00E9       *)
(* (195, 169).                                                             *)

Min(a, b) == IF a < b THEN a ELSE b

Chars == {<<97>>, <<10>>, <<195, 169>>}

RECURSIVE TextsOfLen(_)
TextsOfLen(n) ==
    IF n = 0 THEN {<<>>}
    ELSE {c \o t : c \in {d \in Chars : Len(d) = 1}, t \in TextsOfLen(n - 1)}
         \cup (IF n >= 2
               THEN {c \o t : c \in {d \in Chars : Len(d) = 2},
                              t \in TextsOfLen(n - 2)}
               ELSE {})

ShortTexts == UNION {TextsOfLen(n) : n \in 0..MaxText}

\* n times the byte "a"
Run(n) == [i \in 1..n |-> 97]

\* str::is_char_boundary(i), for i <= len: 0 and len are boundaries, and
\* so is every byte that is not a continuation byte (0x80..0xBF).
is_char_boundary(text, i) ==
    \/ i = 0
    \/ i = Len(text)
    \/ i < Len(text) /\ ~(text[i + 1] \in 128..191)

\* &text[from..to]: the bytes from+1..to, or a panic (slice index order,
\* or an index inside a character).
SliceOk(text, from, to) ==
    /\ from <= to
    /\ to <= Len(text)
    /\ is_char_boundary(text, from)
    /\ is_char_boundary(text, to)

Slice(text, from, to) == SubSeq(text, from + 1, to)

\* The index of the first "\n" of a text, 0 when it has none.
FirstNewline(text) ==
    IF \E i \in 1..Len(text) : text[i] = 10
    THEN CHOOSE i \in 1..Len(text) :
             text[i] = 10 /\ \A j \in 1..(i - 1) : text[j] # 10
    ELSE 0

\* str::lines(): the pieces between line feeds; a final line feed ends the
\* last line and opens no further one.  (No text of the model holds "\r".)
RECURSIVE lines(_)
lines(text) ==
    IF text = <<>> THEN <<>>
    ELSE LET i == FirstNewline(text)
         IN  IF i = 0 THEN <<text>>
             ELSE <<SubSeq(text, 1, i - 1)>>
                  \o lines(SubSeq(text, i + 1, Len(text)))

\* [&str]::join("\n")
RECURSIVE join(_)
join(ls) ==
    IF ls = <<>> THEN <<>>
    ELSE IF Len(ls) = 1 THEN ls[1]
    ELSE ls[1] \o <<10>> \o join(Tail(ls))

-----------------------------------------------------------------------------
(* ops/repl.rs: buffers *)

PreviewBytes == 200       \* BufferInfo::from_buffer: content.len() > 200
DefaultEndLine == 100     \* default_end_line
DefaultPeekEnd == 500     \* default_peek_end

BufNames == {"b"}

\* "a.x" is indexed and readable, "gone.x" is indexed and can no longer be
\* read, "ghost.x" is not in the file tree.
IndexedFiles == {"a.x", "gone.x"}
BufFiles == IndexedFiles \cup {"ghost.x"}

\* The files "a.x" may be: every short text, and two texts longer than the
\* preview of a BufferInfo, one with a character across byte 200.
FileTexts ==
    ShortTexts
    \cup {Run(PreviewBytes + 1), Run(PreviewBytes - 1) \o <<195, 169>>}

CreateTexts == {<<>>, <<97>>, <<195, 169>>}

\* The start and end of a request; an end that is left out is the default.
StartArgs == 0..MaxArg
EndLines == (0..MaxArg) \cup {DefaultEndLine}
PeekEnds == (0..MaxArg) \cup {DefaultPeekEnd}

\* The from-file requests: every range of "a.x", one request per file that
\* cannot be loaded.
FromFileCalls ==
    ({"a.x"} \X StartArgs \X EndLines)
    \cup ((BufFiles \ {"a.x"}) \X {0} \X {DefaultEndLine})

\* BufferInfo::from_buffer(&buf) returns: `&buf.content[..200]` is taken of
\* a content longer than 200 bytes, and panics inside a character.
FromBufferOk(content) ==
    Len(content) > PreviewBytes => SliceOk(content, 0, PreviewBytes)

NoOp == [op |-> "none", name |-> "", file |-> "", start |-> 0, end |-> 0,
         result |-> "none", text |-> <<>>, size |-> 0]

BufferInit ==
    /\ fileText \in FileTexts
    /\ buffers = EmptyMap
    /\ bufOp = NoOp

\* The buffers of a run of another subsystem.
BufferParked ==
    /\ fileText = <<>>
    /\ buffers = EmptyMap
    /\ bufOp = NoOp

\* buffer_create
buffer_create(name, content) ==
    /\ IF FromBufferOk(content)
       THEN /\ buffers' = MapPut(buffers, name,
                                 [content |-> content, source |-> "computed"])
            /\ bufOp' = [NoOp EXCEPT !.op = "buffer_create", !.name = name,
                                     !.result = "ok", !.size = Len(content)]
       ELSE /\ UNCHANGED buffers
            /\ bufOp' = [NoOp EXCEPT !.op = "buffer_create", !.name = name,
                                     !.result = "panic"]
    /\ UNCHANGED fileText
    /\ UNCHANGED notBuffer

\* The content buffer_from_file stores for a source text.
FileSlice(source, start, end) ==
    LET ls == lines(source)
        total_lines == Len(ls)
        s == Min(start, total_lines)
        e == Min(end, total_lines)
    IN  [ok |-> s <= e, start |-> s, end |-> e,
         content |-> IF s <= e THEN join(SubSeq(ls, s + 1, e)) ELSE <<>>]

\* buffer_from_file
buffer_from_file(name, file, start, end) ==
    LET call == [NoOp EXCEPT !.op = "buffer_from_file", !.name = name,
                             !.file = file, !.start = start, !.end = end]
        cut == FileSlice(fileText, start, end)
    IN  /\ IF file \notin IndexedFiles \/ file # "a.x"
           THEN \* not in the file tree, or read_to_string fails
                /\ bufOp' = [call EXCEPT !.result = "err"]
                /\ UNCHANGED buffers
           ELSE IF cut.ok /\ FromBufferOk(cut.content)
           THEN /\ buffers' = MapPut(buffers, name,
                                     [content |-> cut.content, source |-> "file"])
                /\ bufOp' = [call EXCEPT !.result = "ok",
                                         !.size = Len(cut.content)]
           ELSE \* lines[start..end] with start > end, or the preview
                /\ bufOp' = [call EXCEPT !.result = "panic"]
                /\ UNCHANGED buffers
        /\ UNCHANGED fileText
        /\ UNCHANGED notBuffer

\* buffer_peek
buffer_peek(name, start, end) ==
    LET call == [NoOp EXCEPT !.op = "buffer_peek", !.name = name,
                             !.start = start, !.end = end]
    IN  /\ IF name \notin DOMAIN buffers
           THEN bufOp' = [call EXCEPT !.result = "err"]
           ELSE LET content == buffers[name].content
                    s == Min(start, Len(content))
                    e == Min(end, Len(content))
                IN  IF SliceOk(content, s, e)
                    THEN bufOp' = [call EXCEPT !.result = "ok",
                                               !.text = Slice(content, s, e)]
                    ELSE bufOp' = [call EXCEPT !.result = "panic"]
        /\ UNCHANGED <<fileText, buffers>>
        /\ UNCHANGED notBuffer

\* buffer_delete
buffer_delete(name) ==
    /\ IF name \in DOMAIN buffers
       THEN /\ buffers' = MapRemove(buffers, name)
            /\ bufOp' = [NoOp EXCEPT !.op = "buffer_delete", !.name = name,
                                     !.result = "ok"]
       ELSE /\ UNCHANGED buffers
            /\ bufOp' = [NoOp EXCEPT !.op = "buffer_delete", !.name = name,
                                     !.result = "err"]
    /\ UNCHANGED fileText
    /\ UNCHANGED notBuffer

BufferNext ==
    \/ \E name \in BufNames, content \in CreateTexts : buffer_create(name, content)
    \/ \E name \in BufNames, c \in FromFileCalls :
          buffer_from_file(name, c[1], c[2], c[3])
    \/ \E name \in BufNames, start \in StartArgs, end \in PeekEnds :
          buffer_peek(name, start, end)
    \/ \E name \in BufNames : buffer_delete(name)

-----------------------------------------------------------------------------
(* ops/repl.rs: semantic_chunks, make_chunk, simple_chunks *)

DefaultMaxChunkBytes == 5000    \* params.max_chunk_bytes.unwrap_or(5000)

Budgets == (0..MaxBudget) \cup {DefaultMaxChunkBytes}

SourceTexts == UNION {TextsOfLen(n) : n \in 0..MaxSource}

\* The names of the symbols of one file are distinct: the key of a symbol is
\* file::name.
SymName(i) == "s" \o ToString(i)

\* A definition node of the source: byte_range.0 <= byte_range.1 <=
\* file size, both on character boundaries.
Ranges(source) ==
    {r \in (0..Len(source)) \X (0..Len(source)) :
        r[1] <= r[2] /\ SliceOk(source, r[1], r[2])}

\* list_by_file(file) after sort_by_key(|s| s.byte_range.0): the order of
\* symbols that start at the same byte is that of the HashSet, any.
SortedSymbols(source) ==
    UNION {{q \in [1..n -> Ranges(source)] :
               \A i \in 1..(n - 1) : q[i][1] <= q[i + 1][1]} : n \in 0..MaxSyms}

\* str::floor_char_boundary
floor_char_boundary(text, index) ==
    IF index >= Len(text) THEN Len(text)
    ELSE CHOOSE j \in 0..index :
             /\ is_char_boundary(text, j)
             /\ \A k \in (j + 1)..index : ~is_char_boundary(text, k)

\* make_chunk returns: its three slices of the source do not panic.
ChunkOk(source, byte_start, byte_end) ==
    /\ SliceOk(source, 0, byte_start)
    /\ SliceOk(source, 0, byte_end)
    /\ SliceOk(source, byte_start, byte_end)

\* make_chunk
make_chunk(source, index, byte_start, byte_end, syms) ==
    LET slice == Slice(source, byte_start, byte_end)
    IN  [index |-> index,
         byte_start |-> byte_start,
         byte_end |-> byte_end,
         line_start |-> Len(lines(Slice(source, 0, byte_start))),
         line_end |-> Len(lines(Slice(source, 0, byte_end))),
         symbols |-> syms,
         preview |-> IF Len(slice) > PreviewBytes
                     THEN Slice(slice, 0, floor_char_boundary(slice, PreviewBytes))
                          \o <<46, 46, 46>>
                     ELSE slice]

\* The state of the loop of semantic_chunks before its first symbol.
LoopStart ==
    [chunks |-> <<>>, chunk_start |-> 0, chunk_symbols |-> <<>>, chunk_index |-> 0]

\* The loop body with the pending chunk closed before an oversize symbol
\* even when no symbol has been collected yet.
ChunkLoopBodyClosesEmpty(acc, source, max_chunk_bytes, range, i) ==
    LET sym_start == range[1]
        sym_end == Min(range[2], Len(source))
        sym_size == sym_end - sym_start
        close == /\ acc.chunk_start < sym_start
                 /\ (sym_end - acc.chunk_start) > max_chunk_bytes
        a1 == IF close
              THEN [chunks |-> Append(acc.chunks,
                                      make_chunk(source, acc.chunk_index,
                                                 acc.chunk_start, sym_start,
                                                 acc.chunk_symbols)),
                    chunk_start |-> sym_start,
                    chunk_symbols |-> <<>>,
                    chunk_index |-> acc.chunk_index + 1]
              ELSE acc
    IN  IF sym_size > max_chunk_bytes /\ a1.chunk_symbols = <<>>
        THEN [chunks |-> Append(a1.chunks,
                                make_chunk(source, a1.chunk_index, sym_start,
                                           sym_end, <<SymName(i)>>)),
              chunk_start |-> sym_end,
              chunk_symbols |-> <<>>,
              chunk_index |-> a1.chunk_index + 1]
        ELSE [a1 EXCEPT !.chunk_symbols = Append(a1.chunk_symbols, SymName(i))]

\* One turn of `for sym in &file_symbols`; i is the place of sym in the
\* sorted list.
ChunkLoopBody(acc, source, max_chunk_bytes, range, i) ==
    LET sym_start == range[1]
        sym_end == Min(range[2], Len(source))
        sym_size == sym_end - sym_start
        close == /\ acc.chunk_start < sym_start
                 /\ (sym_end - acc.chunk_start) > max_chunk_bytes
                 /\ acc.chunk_symbols # <<>>
        a1 == IF close
              THEN [chunks |-> Append(acc.chunks,
                                      make_chunk(source, acc.chunk_index,
                                                 acc.chunk_start, sym_start,
                                                 acc.chunk_symbols)),
                    chunk_start |-> sym_start,
                    chunk_symbols |-> <<>>,
                    chunk_index |-> acc.chunk_index + 1]
              ELSE acc
    IN  IF sym_size > max_chunk_bytes /\ a1.chunk_symbols = <<>>
        THEN [chunks |-> Append(a1.chunks,
                                make_chunk(source, a1.chunk_index, sym_start,
                                           sym_end, <<SymName(i)>>)),
              chunk_start |-> sym_end,
              chunk_symbols |-> <<>>,
              chunk_index |-> a1.chunk_index + 1]
        ELSE [a1 EXCEPT !.chunk_symbols = Append(a1.chunk_symbols, SymName(i))]

RECURSIVE ChunkLoop(_, _, _, _, _)
ChunkLoop(acc, source, max_chunk_bytes, syms, i) ==
    IF i > Len(syms) THEN acc
    ELSE ChunkLoop(ChunkLoopBody(acc, source, max_chunk_bytes, syms[i], i),
                   source, max_chunk_bytes, syms, i + 1)

\* semantic_chunks on a file with symbols: the loop and the final chunk.
SymbolChunks(source, syms, max_chunk_bytes) ==
    LET acc == ChunkLoop(LoopStart, source, max_chunk_bytes, syms, 1)
    IN  IF acc.chunk_start < Len(source)
        THEN Append(acc.chunks,
                    make_chunk(source, acc.chunk_index, acc.chunk_start,
                               Len(source), acc.chunk_symbols))
        ELSE acc.chunks

\* simple_chunks: the end of the chunk that starts at start.
SimpleEnd(source, start, max_chunk_bytes) ==
    LET end == floor_char_boundary(source,
                                   Min(start + max_chunk_bytes, Len(source)))
        window == Slice(source, start, end)
        newlines == {k \in 1..Len(window) : window[k] = 10}
    IN  IF end < Len(source) /\ newlines # {}
        THEN start + (CHOOSE k \in newlines : \A m \in newlines : m <= k)
        ELSE end

ChunkParked ==
    /\ chFile = ""
    /\ chSource = <<>>
    /\ chSymbols = <<>>
    /\ chMax = 0
    /\ chPc = "call"
    /\ chStart = 0
    /\ chunks = <<>>
    /\ chResult = "none"

\* A request: a file, what it holds and the symbols the table has for it.
ChunkInit ==
    /\ chFile \in BufFiles
    /\ chSource \in IF chFile = "a.x" THEN SourceTexts ELSE {<<>>}
    /\ chSymbols \in IF chFile = "a.x" THEN SortedSymbols(chSource) ELSE {<<>>}
    /\ chMax \in Budgets
    /\ chPc = "call"
    /\ chStart = 0
    /\ chunks = <<>>
    /\ chResult = "none"

\* semantic_chunks up to its return, or up to its call of simple_chunks
semantic_chunks ==
    /\ chPc = "call"
    /\ IF chFile # "a.x"
       THEN \* not in the file tree, or the source cannot be loaded
            /\ chPc' = "done"
            /\ chResult' = "err"
            /\ UNCHANGED chunks
       ELSE IF chSymbols = <<>>
       THEN /\ chPc' = "simple"
            /\ UNCHANGED <<chunks, chResult>>
       ELSE /\ chPc' = "done"
            /\ chunks' = SymbolChunks(chSource, chSymbols, chMax)
            /\ chResult' = IF \A k \in 1..Len(chunks') :
                                 ChunkOk(chSource, chunks'[k].byte_start,
                                         chunks'[k].byte_end)
                           THEN "ok" ELSE "panic"
    /\ UNCHANGED <<chFile, chSource, chSymbols, chMax, chStart>>
    /\ UNCHANGED notChunk

\* simple_chunks: one turn of `while start < source.len()`
simple_chunks_turn ==
    /\ chPc = "simple"
    /\ chStart < Len(chSource)
    /\ Len(chunks) < MaxChunks
    /\ LET end == SimpleEnd(chSource, chStart, chMax)
       IN  /\ chunks' = Append(chunks,
                               make_chunk(chSource, Len(chunks), chStart, end, <<>>))
           /\ chStart' = end
    /\ UNCHANGED <<chFile, chSource, chSymbols, chMax, chPc, chResult>>
    /\ UNCHANGED notChunk

\* simple_chunks: the loop ends and semantic_chunks returns the chunks
simple_chunks_return ==
    /\ chPc = "simple"
    /\ chStart >= Len(chSource)
    /\ chPc' = "done"
    /\ chResult' = "ok"
    /\ UNCHANGED <<chFile, chSource, chSymbols, chMax, chStart, chunks>>
    /\ UNCHANGED notChunk

ChunkNext ==
    \/ semantic_chunks
    \/ simple_chunks_turn
    \/ simple_chunks_return

-----------------------------------------------------------------------------
(* server/session.rs: Session::record; ops/history.rs: compact_history *)

RecordPreviewBytes == 200       \* response_preview.len() > 200
DefaultKeepRecent == 20         \* params.keep_recent.unwrap_or(20)

KeepRecents == (0..MaxKeep) \cup {DefaultKeepRecent}

\* The (method, path) pairs of the handlers that record history.
Calls == {<<"GET", "/p/a">>, <<"POST", "/p/a">>, <<"GET", "/q">>}

\* The previews handlers pass: short, longer than the limit, and longer than
\* the limit with a two-byte character across it.
Previews == {<<97>>, Run(201), Run(199) \o <<195, 169>>}

\* "compacted"
CompactedBytes == <<99, 111, 109, 112, 97, 99, 116, 101, 100>>

\* usize formatted by {}
RECURSIVE Decimal(_)
Decimal(n) ==
    IF n < 10 THEN <<48 + n>>
    ELSE Decimal(n \div 10) \o <<48 + (n % 10)>>

\* format!("[{} calls compacted]", count)
CompactedPreview(count) ==
    <<91>> \o Decimal(count) \o <<32, 99, 97, 108, 108, 115, 32>>
           \o CompactedBytes \o <<93>>

HistoryInit ==
    /\ session = [history |-> <<>>, last_active |-> 0]
    /\ hClock = 1
    /\ hOp = [op |-> "new"]

HistoryParked == HistoryInit

\* Session::record returns: &response_preview[..200] does not panic.
RecordOk(response_preview) ==
    Len(response_preview) > RecordPreviewBytes
        => is_char_boundary(response_preview, RecordPreviewBytes)

\* Session::record cutting the preview at the limit and adding nothing.
recordCutOnly(s, method, path, response_preview, t) ==
    [last_active |-> t,
     history |-> Append(s.history,
        [timestamp |-> t,
         method |-> method,
         path |-> path,
         response_preview |->
            IF Len(response_preview) > RecordPreviewBytes
            THEN Slice(response_preview, 0, RecordPreviewBytes)
            ELSE response_preview])]

\* Session::record at time t
record(s, method, path, response_preview, t) ==
    [last_active |-> t,
     history |-> Append(s.history,
        [timestamp |-> t,
         method |-> method,
         path |-> path,
         response_preview |->
            IF Len(response_preview) > RecordPreviewBytes
            THEN Slice(response_preview, 0, RecordPreviewBytes) \o <<46, 46, 46>>
            ELSE response_preview])]

\* The comparison without its second half.
SameMethod(a, b) == a.method = b.method

\* to_compact[i + count].method == current.method
\*     && to_compact[i + count].path == current.path
SameCall(a, b) == a.method = b.method /\ a.path = b.path

\* The inner while loop of compact_history: the length of the group that
\* starts at i (1-based).
RECURSIVE GroupCount(_, _, _)
GroupCount(to_compact, i, count) ==
    IF i + count <= Len(to_compact) /\ SameCall(to_compact[i + count], to_compact[i])
    THEN GroupCount(to_compact, i, count + 1)
    ELSE count

\* The outer while loop of compact_history.
RECURSIVE CompactLoop(_, _, _)
CompactLoop(to_compact, i, compacted) ==
    IF i > Len(to_compact) THEN compacted
    ELSE LET current == to_compact[i]
             count == GroupCount(to_compact, i, 1)
             entry == IF count > 1
                      THEN [timestamp |-> current.timestamp,
                            method |-> current.method,
                            path |-> current.path,
                            response_preview |-> CompactedPreview(count)]
                      ELSE current
         IN  CompactLoop(to_compact, i + count, Append(compacted, entry))

\* compact_history counting the compacted entries only.
CompactHistoryCountsPrefix(history, keep_recent) ==
    LET total == Len(history)
    IN  IF total <= keep_recent
        THEN [history |-> history,
              original_count |-> total, compacted_count |-> total, removed |-> 0]
        ELSE LET split_point == total - keep_recent
                 to_compact == SubSeq(history, 1, split_point)
                 recent == SubSeq(history, split_point + 1, total)
                 compacted == CompactLoop(to_compact, 1, <<>>)
                 compacted_count == Len(compacted)
             IN  [history |-> compacted \o recent,
                  original_count |-> total,
                  compacted_count |-> compacted_count,
                  removed |-> total - compacted_count]

\* compact_history compacting the whole history when it is longer than
\* keep_recent.
CompactHistoryWhole(history, keep_recent) ==
    LET total == Len(history)
    IN  IF total <= keep_recent
        THEN [history |-> history,
              original_count |-> total, compacted_count |-> total, removed |-> 0]
        ELSE LET compacted == CompactLoop(history, 1, <<>>)
             IN  [history |-> compacted,
                  original_count |-> total,
                  compacted_count |-> Len(compacted),
                  removed |-> total - Len(compacted)]

\* ops::history::compact_history: the history it stores and what it returns
CompactHistory(history, keep_recent) ==
    LET total == Len(history)
    IN  IF total <= keep_recent
        THEN [history |-> history,
              original_count |-> total, compacted_count |-> total, removed |-> 0]
        ELSE LET split_point == total - keep_recent
                 to_compact == SubSeq(history, 1, split_point)
                 recent == SubSeq(history, split_point + 1, total)
                 compacted == CompactLoop(to_compact, 1, <<>>)
                 compacted_count == Len(compacted) + Len(recent)
             IN  [history |-> compacted \o recent,
                  original_count |-> total,
                  compacted_count |-> compacted_count,
                  removed |-> total - compacted_count]

\* A handler that ends with record_history(method, path, preview)
record_history(call, preview) ==
    /\ hClock <= MaxStamp
    /\ IF RecordOk(preview)
       THEN /\ session' = record(session, call[1], call[2], preview, hClock)
            /\ hClock' = hClock + 1
            /\ hOp' = [op |-> "record", preview |-> preview, result |-> "ok"]
       ELSE /\ hOp' = [op |-> "record", preview |-> preview, result |-> "panic"]
            /\ UNCHANGED <<session, hClock>>
    /\ UNCHANGED notHistory

\* routes.rs compact_history: compacts, then records the call itself
compact_history(keep_recent) ==
    /\ hClock <= MaxStamp
    /\ LET r == CompactHistory(session.history, keep_recent)
       IN  /\ session' = record([session EXCEPT !.history = r.history],
                                "POST", "/history/compact", CompactedBytes, hClock)
           /\ hOp' = [op |-> "compact",
                      keep_recent |-> keep_recent,
                      before |-> session.history,
                      stored |-> r.history,
                      original_count |-> r.original_count,
                      compacted_count |-> r.compacted_count,
                      removed |-> r.removed]
    /\ hClock' = hClock + 1
    /\ UNCHANGED notHistory

HistoryNext ==
    \/ \E call \in Calls, preview \in Previews : record_history(call, preview)
    \/ \E keep_recent \in KeepRecents : compact_history(keep_recent)

-----------------------------------------------------------------------------
(* symbols/mod.rs: SymbolTable *)

\* Relative paths and symbol names.  Paths may hold any character a file
\* name may hold and a name is the text of a captured node (a markdown
\* heading is free text), so both may contain "::".
Files == {"a", "a::b"}
Names == {"c", "b::c"}

Symbol == [name : Names, file : Files, line : 1..MaxLine]

CallerRef == [file : Files, line : 1..1, text : {"c()"}]

\* format!("{}::{}", file, name)
make_key(file, name) == file \o "::" \o name

\* self.by_name.entry(name).or_insert_with(HashSet::new).insert(key)
IndexAdd(index, k, key) ==
    MapPut(index, k, (IF k \in DOMAIN index THEN index[k] ELSE {}) \cup {key})

InsertByName(bn, sym) == IndexAdd(bn, sym.name, make_key(sym.file, sym.name))

InsertByFile(bf, sym) == IndexAdd(bf, sym.file, make_key(sym.file, sym.name))

\* An insert that removes the entry when its key is already there.
InsertPrimaryToggles(s, sym) ==
    IF make_key(sym.file, sym.name) \in DOMAIN s
    THEN MapRemove(s, make_key(sym.file, sym.name))
    ELSE MapPut(s, make_key(sym.file, sym.name), sym)

InsertPrimary(s, sym) == MapPut(s, make_key(sym.file, sym.name), sym)

\* remove_callers_from_file without its second retain: a callee whose call
\* sites were all in the file keeps an empty list.
remove_callers_keeps_empty(rcg, file) ==
    [c \in DOMAIN rcg |-> SelectSeq(rcg[c], LAMBDA r : r.file # file)]

\* entry.value_mut().retain(|c| c.file != file), then
\* reverse_call_graph.retain(|_, v| !v.is_empty())
remove_callers_from_file(rcg, file) ==
    LET kept == [c \in DOMAIN rcg |-> SelectSeq(rcg[c], LAMBDA r : r.file # file)]
    IN  [c \in {d \in DOMAIN kept : kept[d] # <<>>} |-> kept[c]]

\* The body of `for key in &keys` of remove_file, on the pair
\* st = [symbols, by_name].
RemoveKey(st, key) ==
    IF key \in DOMAIN st.symbols
    THEN LET sym == st.symbols[key]
             s1  == MapRemove(st.symbols, key)
         IN  IF sym.name \in DOMAIN st.by_name
             THEN LET name_set == st.by_name[sym.name] \ {key}
                  IN  [symbols |-> s1,
                       by_name |-> IF name_set = {}
                                   THEN MapRemove(st.by_name, sym.name)
                                   ELSE MapPut(st.by_name, sym.name, name_set)]
             ELSE [symbols |-> s1, by_name |-> st.by_name]
    ELSE st

\* The loop over the HashSet of keys.  Its iteration order is unspecified;
\* two keys touch different primary entries and remove different elements
\* of the name sets, so every order gives the same result.
RECURSIVE RemoveKeys(_, _)
RemoveKeys(st, keys) ==
    IF keys = {} THEN st
    ELSE LET key == CHOOSE k \in keys : TRUE
         IN  RemoveKeys(RemoveKey(st, key), keys \ {key})

TableInit ==
    /\ symbols = EmptyMap
    /\ by_name = EmptyMap
    /\ by_file = EmptyMap
    /\ reverse_call_graph = EmptyMap
    /\ lastOp = [op |-> "new", file |-> ""]
    /\ inflight = EmptyMap

\* SymbolTable::insert, run to completion
Insert(sym) ==
    /\ by_name' = InsertByName(by_name, sym)
    /\ by_file' = InsertByFile(by_file, sym)
    /\ symbols' = InsertPrimary(symbols, sym)
    /\ lastOp' = [op |-> "insert", file |-> sym.file]
    /\ UNCHANGED <<reverse_call_graph, inflight>>
    /\ UNCHANGED notTable

\* SymbolTable::remove_file, run to completion
RemoveFile(file) ==
    /\ reverse_call_graph' = remove_callers_from_file(reverse_call_graph, file)
    /\ IF file \in DOMAIN by_file
       THEN LET st == RemoveKeys([symbols |-> symbols, by_name |-> by_name],
                                 by_file[file])
            IN  /\ by_file' = MapRemove(by_file, file)
                /\ symbols' = st.symbols
                /\ by_name' = st.by_name
       ELSE UNCHANGED <<symbols, by_name, by_file>>
    /\ lastOp' = [op |-> "remove_file", file |-> file,
                  callees |-> DOMAIN reverse_call_graph]
    /\ UNCHANGED inflight
    /\ UNCHANGED notTable

\* SymbolTable::add_caller
AddCaller(callee, ref) ==
    /\ Len(IF callee \in DOMAIN reverse_call_graph
           THEN reverse_call_graph[callee] ELSE <<>>) < MaxCallers
    /\ reverse_call_graph' =
           MapPut(reverse_call_graph, callee,
                  Append(IF callee \in DOMAIN reverse_call_graph
                         THEN reverse_call_graph[callee] ELSE <<>>, ref))
    /\ lastOp' = [op |-> "add_caller", file |-> ref.file]
    /\ UNCHANGED <<symbols, by_name, by_file, inflight>>
    /\ UNCHANGED notTable

\* SymbolTable::get_callers
get_callers(rcg, name) ==
    IF name \in DOMAIN rcg THEN [some |-> TRUE, value |-> rcg[name]]
    ELSE [some |-> FALSE]

\* SymbolTable::get
get(s, file, name) ==
    IF make_key(file, name) \in DOMAIN s
    THEN [some |-> TRUE, value |-> s[make_key(file, name)]]
    ELSE [some |-> FALSE]

TableNext ==
    \/ \E sym \in Symbol : Insert(sym)
    \/ \E file \in Files : RemoveFile(file)
    \/ \E callee \in Names, ref \in CallerRef : AddCaller(callee, ref)

-----------------------------------------------------------------------------
(* symbols/mod.rs: SymbolTable::search *)

DefaultSearchLimit == 20        \* params.limit.unwrap_or(20)

Limits == (0..MaxLimit) \cup {DefaultSearchLimit}

Queries == {"", "c", "C", "bc", "x"}

\* The symbols of the searched table: names that differ in case only, and a
\* name that holds another.
SearchSymbols == [name : {"c", "C", "bC"}, file : {"a"}, line : 1..1]

\* char::to_lowercase on the letters of the model
LowerChar(ch) ==
    CASE ch = "B" -> "b"
      [] ch = "C" -> "c"
      [] OTHER -> ch

\* str::to_lowercase
RECURSIVE to_lowercase(_)
to_lowercase(str) ==
    IF str = "" THEN ""
    ELSE LowerChar(SubSeq(str, 1, 1)) \o to_lowercase(SubSeq(str, 2, Len(str)))

\* str::contains
contains(str, pat) ==
    \E i \in 1..(Len(str) - Len(pat) + 1) : SubSeq(str, i, i + Len(pat) - 1) = pat

\* The orders in which self.symbols.iter() may visit the keys.
IterOrders(keys) ==
    {o \in [1..Cardinality(keys) -> keys] :
        \A i, j \in 1..Cardinality(keys) : i # j => o[i] # o[j]}

\* The search loop from the i-th visited breaks as soon as a push makes
\* results.len() >= limit.
RECURSIVE SearchLoop(_, _, _, _, _)
SearchLoop(order, i, query_lower, limit, results) ==
    IF i > Len(order) THEN results
    ELSE IF contains(to_lowercase(symbols[order[i]].name), query_lower)
    THEN LET pushed == Append(results, symbols[order[i]])
         IN  IF Len(pushed) >= limit THEN pushed
             ELSE SearchLoop(order, i + 1, query_lower, limit, pushed)
    ELSE SearchLoop(order, i + 1, query_lower, limit, results)

\* SymbolTable::search
Search(query, limit) ==
    /\ \E order \in IterOrders(DOMAIN symbols) :
        lastOp' = [op |-> "search", file |-> "", query |-> query, limit |-> limit,
                   results |-> SearchLoop(order, 1, to_lowercase(query), limit, <<>>)]
    /\ UNCHANGED <<symbols, by_name, by_file, reverse_call_graph, inflight>>
    /\ UNCHANGED notTable

SearchNext ==
    \/ \E sym \in SearchSymbols : Insert(sym)
    \/ \E file \in {"a"} : RemoveFile(file)
    \/ \E query \in Queries, limit \in Limits : Search(query, limit)

-----------------------------------------------------------------------------
(* symbols/parser.rs: extract_all_symbols *)

\* Language::has_tree_sitter_support, on the two tags of the model.
has_tree_sitter_support(language) == language = "Markdown"

\* The symbols a symbols query finds in file f, in match order; the i-th is
\* told from the others by its line.
SymbolLists(f) ==
    UNION {{[i \in 1..n |-> [name |-> q[i], file |-> f, line |-> i]] :
               q \in [1..n -> Names]} : n \in 0..MaxExtracted}

\* The (callee_name, line, text) triples a callers query finds in a file.
SiteLists ==
    {<<>>, <<<<"c", 1, "c()">>>>, <<<<"c", 1, "c()">>, <<"b::c", 2, "c()">>>>}

\* A file of the project: its language tag and what extraction meets.
\*   "skipped"     the language has no tree-sitter support
\*   "unreadable"  read_to_string fails (missing, not UTF-8)
\*   "unparsable"  parser.parse gives None
\*   "ok"          the queries run
DiskFiles(f) ==
    [language : {"Unknown"}, kind : {"skipped"}, symbols : {<<>>}, sites : {<<>>}]
    \cup [language : {"Markdown"}, kind : {"unreadable", "unparsable"},
          symbols : {<<>>}, sites : {<<>>}]
    \cup [language : {"Markdown"}, kind : {"ok"},
          symbols : SymbolLists(f), sites : SiteLists]

\* extract_symbols_from_file with a failed read turned into an empty list.
extract_symbols_lenient(f) == [ok |-> TRUE, symbols |-> disk[f].symbols]

\* extract_symbols_from_file: Err, or Ok with the symbols
extract_symbols_from_file(f) ==
    IF disk[f].kind = "unreadable" THEN [ok |-> FALSE, symbols |-> <<>>]
    ELSE [ok |-> TRUE, symbols |-> disk[f].symbols]

\* extract_call_sites: every failure gives the empty list
extract_call_sites(f) ==
    IF disk[f].kind = "ok" THEN disk[f].sites ELSE <<>>

\* Phase 1 with a failed file ending the whole pass.
ResultsFailFast(paths) ==
    IF \E i \in 1..Len(paths) : ~extract_symbols_from_file(paths[i]).ok
    THEN <<>>
    ELSE paths

\* Phase 1: paths.par_iter().filter_map(..).collect(), the files whose
\* extraction returned Ok, in the order of paths.
Results(paths) ==
    SelectSeq(paths, LAMBDA f : extract_symbols_from_file(f).ok)

\* Phase 2: the call sites of all paths, file by file, in the order of
\* paths.
RECURSIVE CallSites(_)
CallSites(paths) ==
    IF paths = <<>> THEN <<>>
    ELSE LET f == Head(paths)
             sites == extract_call_sites(f)
         IN  [i \in 1..Len(sites) |-> <<f, sites[i]>>] \o CallSites(Tail(paths))

\* SymbolTable::add_caller on the map
add_caller(rcg, callee_name, file, line, text) ==
    MapPut(rcg, callee_name,
           Append(IF callee_name \in DOMAIN rcg THEN rcg[callee_name] ELSE <<>>,
                  [file |-> file, line |-> line, text |-> text]))

TableNow ==
    [symbols |-> symbols, by_name |-> by_name, by_file |-> by_file,
     reverse_call_graph |-> reverse_call_graph]

ExtractIdle(paths) ==
    [pc |-> "idle", paths |-> paths, queue |-> <<>>, j |-> 1, total |-> 0, sites |-> <<>>,
     passes |-> 0, result |-> "none", returned |-> 0,
     last |-> <<>>, prev |-> <<>>]

ExtractParked ==
    /\ files = EmptyMap
    /\ disk = EmptyMap
    /\ xt = ExtractIdle(<<>>)

\* A project just indexed: no file is marked, the extractor has not run.
\* paths is the order in which file_tree.files.iter() gives the supported
\* files; it is the same on every pass over an unchanged map.
ExtractInit ==
    /\ disk \in [Files -> UNION {DiskFiles(f) : f \in Files}]
    /\ \A f \in Files : disk[f] \in DiskFiles(f)
    /\ files = [f \in Files |->
                   [language |-> disk[f].language, symbols_extracted |-> FALSE]]
    /\ \E paths \in IterOrders({f \in Files :
                                  has_tree_sitter_support(disk[f].language)}) :
        xt = ExtractIdle(paths)

\* extract_all_symbols starts: phase 1 extracts every supported file and
\* collects the lists of those that returned Ok
ExtractBegin ==
    /\ xt.pc = "idle"
    /\ xt.passes < MaxPasses
    /\ xt' = [xt EXCEPT !.pc = "insert", !.queue = Results(xt.paths),
                        !.j = 1, !.total = 0, !.result = "none"]
    /\ UNCHANGED <<files, disk>>
    /\ UNCHANGED tableVars
    /\ UNCHANGED notExtract

\* symbol_table.insert(sym.clone()) for the next symbol of the file at the
\* head of the results.  The extractor builds every Symbol with
\* `definition: None` and the insert replaces the record stored under the
\* key, so the key has no definition afterwards.
ExtractInsert ==
    /\ xt.pc = "insert"
    /\ xt.queue # <<>>
    /\ xt.j <= Len(disk[Head(xt.queue)].symbols)
    /\ LET sym == disk[Head(xt.queue)].symbols[xt.j]
       IN  /\ by_name' = InsertByName(by_name, sym)
           /\ by_file' = InsertByFile(by_file, sym)
           /\ symbols' = InsertPrimary(symbols, sym)
           /\ ann' = [ann EXCEPT !.attached =
                                     MapRemove(@, make_key(sym.file, sym.name))]
    /\ xt' = [xt EXCEPT !.j = xt.j + 1]
    /\ UNCHANGED <<reverse_call_graph, lastOp, inflight>>
    /\ UNCHANGED <<files, disk>>
    /\ UNCHANGED notAnnotate

\* The flag of the file set before the first of its symbols is inserted.
ExtractMarkBeforeInserts ==
    /\ xt.pc = "insert"
    /\ xt.queue # <<>>
    /\ LET f == Head(xt.queue)
       IN  \/ /\ xt.j = 1
              /\ f \in DOMAIN files
              /\ ~files[f].symbols_extracted
              /\ files' = [files EXCEPT ![f].symbols_extracted = TRUE]
              /\ xt' = xt
           \/ /\ xt.j > Len(disk[f].symbols)
              /\ files' = IF f \in DOMAIN files
                          THEN [files EXCEPT ![f].symbols_extracted = TRUE]
                          ELSE files
              /\ xt' = [xt EXCEPT !.queue = Tail(xt.queue), !.j = 1,
                                  !.total = xt.total + Len(disk[f].symbols)]
    /\ UNCHANGED disk
    /\ UNCHANGED tableVars
    /\ UNCHANGED notExtract

\* entry.symbols_extracted = true; total += count, once the symbols of the
\* file are inserted
ExtractMark ==
    /\ xt.pc = "insert"
    /\ xt.queue # <<>>
    /\ xt.j > Len(disk[Head(xt.queue)].symbols)
    /\ LET f == Head(xt.queue)
       IN  /\ files' = IF f \in DOMAIN files
                       THEN [files EXCEPT ![f].symbols_extracted = TRUE]
                       ELSE files
           /\ xt' = [xt EXCEPT !.queue = Tail(xt.queue), !.j = 1,
                               !.total = xt.total + Len(disk[f].symbols)]
    /\ UNCHANGED disk
    /\ UNCHANGED tableVars
    /\ UNCHANGED notExtract

\* Phase 2 extracts the call sites of every supported file
ExtractCallSites ==
    /\ xt.pc = "insert"
    /\ xt.queue = <<>>
    /\ xt' = [xt EXCEPT !.pc = "callers", !.sites = CallSites(xt.paths)]
    /\ UNCHANGED <<files, disk>>
    /\ UNCHANGED tableVars
    /\ UNCHANGED notExtract

\* symbol_table.add_caller(&callee_name, &rel_path, line, &text)
ExtractAddCaller ==
    /\ xt.pc = "callers"
    /\ xt.sites # <<>>
    /\ LET f == Head(xt.sites)[1]
           site == Head(xt.sites)[2]
       IN  reverse_call_graph' =
               add_caller(reverse_call_graph, site[1], f, site[2], site[3])
    /\ xt' = [xt EXCEPT !.sites = Tail(xt.sites)]
    /\ UNCHANGED <<symbols, by_name, by_file, lastOp, inflight>>
    /\ UNCHANGED <<files, disk>>
    /\ UNCHANGED notExtract

\* Ok(total)
ExtractReturn ==
    /\ xt.pc = "callers"
    /\ xt.sites = <<>>
    /\ xt' = [xt EXCEPT !.pc = "idle", !.passes = xt.passes + 1,
                        !.result = "ok", !.returned = xt.total,
                        !.prev = xt.last, !.last = TableNow]
    /\ UNCHANGED <<files, disk>>
    /\ UNCHANGED tableVars
    /\ UNCHANGED notExtract

ExtractNext ==
    \/ ExtractBegin
    \/ ExtractInsert
    \/ ExtractMark
    \/ ExtractCallSites
    \/ ExtractAddCaller
    \/ ExtractReturn

-----------------------------------------------------------------------------
(* SymbolTable::insert as the three map updates it is made of.  A DashMap  *)
(* update locks one shard of one map, so each update is one step and other *)
(* threads run between them.                                               *)

Threads == {"t1", "t2"}

\* by_name.entry(..).or_insert_with(..).insert(key)
InsertBegin(t, sym) ==
    /\ t \notin DOMAIN inflight
    /\ by_name' = InsertByName(by_name, sym)
    /\ inflight' = MapPut(inflight, t, [sym |-> sym, pc |-> "by_file"])
    /\ UNCHANGED <<symbols, by_file, reverse_call_graph, lastOp>>
    /\ UNCHANGED notTable

\* by_file.entry(..).or_insert_with(..).insert(key)
InsertIndexFile(t) ==
    /\ t \in DOMAIN inflight
    /\ inflight[t].pc = "by_file"
    /\ by_file' = InsertByFile(by_file, inflight[t].sym)
    /\ inflight' = MapPut(inflight, t, [inflight[t] EXCEPT !.pc = "symbols"])
    /\ UNCHANGED <<symbols, by_name, reverse_call_graph, lastOp>>
    /\ UNCHANGED notTable

\* self.symbols.insert(key, symbol), and the call returns
InsertStore(t) ==
    /\ t \in DOMAIN inflight
    /\ inflight[t].pc = "symbols"
    /\ symbols' = InsertPrimary(symbols, inflight[t].sym)
    /\ inflight' = MapRemove(inflight, t)
    /\ lastOp' = [op |-> "insert", file |-> inflight[t].sym.file]
    /\ UNCHANGED <<by_name, by_file, reverse_call_graph>>
    /\ UNCHANGED notTable

InsertNext ==
    \/ \E t \in Threads, sym \in Symbol : InsertBegin(t, sym)
    \/ \E t \in Threads : InsertIndexFile(t)
    \/ \E t \in Threads : InsertStore(t)

-----------------------------------------------------------------------------
(* SymbolTable::remove_file running beside SymbolTable::insert.            *)
(* remove_file holds no lock across its DashMap calls either, so each call *)
(* is one step: by_file.remove(file), then for every key it took           *)
(* symbols.remove(key), by_name.get_mut(name) with the removal of the key  *)
(* from the set, and, after the set's guard is dropped, by_name.remove.    *)
(* The symbols are those of one file, whose keys are all distinct.         *)

RaceFile == "a"

RaceSymbols == {sym \in Symbol : sym.file = RaceFile}

\* remove_callers_from_file(file)
RemoveFileBegin(t, file) ==
    /\ t \notin DOMAIN inflight
    /\ reverse_call_graph' = remove_callers_from_file(reverse_call_graph, file)
    /\ inflight' = MapPut(inflight, t,
                          [pc |-> "take", file |-> file, keys |-> {},
                           key |-> "", name |-> ""])
    /\ UNCHANGED <<symbols, by_name, by_file, lastOp>>
    /\ UNCHANGED notTable

\* if let Some((_, keys)) = self.by_file.remove(file)
RemoveFileTake(t) ==
    /\ t \in DOMAIN inflight
    /\ inflight[t].pc = "take"
    /\ by_file' = MapRemove(by_file, inflight[t].file)
    /\ inflight' = MapPut(inflight, t,
          [inflight[t] EXCEPT
              !.pc = "keys",
              !.keys = IF inflight[t].file \in DOMAIN by_file
                       THEN by_file[inflight[t].file] ELSE {}])
    /\ UNCHANGED <<symbols, by_name, reverse_call_graph, lastOp>>
    /\ UNCHANGED notTable

\* for key in &keys { if let Some((_, sym)) = self.symbols.remove(key): the
\* keys come in the order of the HashSet's iteration
RemoveFileSymbol(t, key) ==
    /\ t \in DOMAIN inflight
    /\ inflight[t].pc = "keys"
    /\ key \in inflight[t].keys
    /\ symbols' = MapRemove(symbols, key)
    /\ inflight' = MapPut(inflight, t,
          IF key \in DOMAIN symbols
          THEN [inflight[t] EXCEPT !.pc = "name", !.keys = @ \ {key},
                                   !.key = key, !.name = symbols[key].name]
          ELSE [inflight[t] EXCEPT !.keys = @ \ {key}])
    /\ UNCHANGED <<by_name, by_file, reverse_call_graph, lastOp>>
    /\ UNCHANGED notTable

\* if let Some(mut name_set) = self.by_name.get_mut(&sym.name) {
\*     name_set.remove(key); if name_set.is_empty() { drop(name_set);
RemoveFileName(t) ==
    /\ t \in DOMAIN inflight
    /\ inflight[t].pc = "name"
    /\ LET name == inflight[t].name
           name_set == by_name[name] \ {inflight[t].key}
       IN  IF name \in DOMAIN by_name
           THEN /\ by_name' = MapPut(by_name, name, name_set)
                /\ inflight' = MapPut(inflight, t,
                      [inflight[t] EXCEPT
                          !.pc = IF name_set = {} THEN "name_entry"
                                 ELSE "keys"])
           ELSE /\ by_name' = by_name
                /\ inflight' = MapPut(inflight, t,
                                      [inflight[t] EXCEPT !.pc = "keys"])
    /\ UNCHANGED <<symbols, by_file, reverse_call_graph, lastOp>>
    /\ UNCHANGED notTable

\* self.by_name.remove(&sym.name)
RemoveFileNameEntry(t) ==
    /\ t \in DOMAIN inflight
    /\ inflight[t].pc = "name_entry"
    /\ by_name' = MapRemove(by_name, inflight[t].name)
    /\ inflight' = MapPut(inflight, t, [inflight[t] EXCEPT !.pc = "keys"])
    /\ UNCHANGED <<symbols, by_file, reverse_call_graph, lastOp>>
    /\ UNCHANGED notTable

\* the loop is over and remove_file returns
RemoveFileReturn(t) ==
    /\ t \in DOMAIN inflight
    /\ inflight[t].pc = "keys"
    /\ inflight[t].keys = {}
    /\ inflight' = MapRemove(inflight, t)
    /\ lastOp' = [op |-> "remove_file", file |-> inflight[t].file,
                  callees |-> DOMAIN reverse_call_graph]
    /\ UNCHANGED <<symbols, by_name, by_file, reverse_call_graph>>
    /\ UNCHANGED notTable

RaceNext ==
    \/ \E t \in Threads, sym \in RaceSymbols : InsertBegin(t, sym)
    \/ \E t \in Threads : InsertIndexFile(t)
    \/ \E t \in Threads : InsertStore(t)
    \/ \E t \in Threads : RemoveFileBegin(t, RaceFile)
    \/ \E t \in Threads : RemoveFileTake(t)
    \/ \E t \in Threads, sym \in RaceSymbols :
          RemoveFileSymbol(t, make_key(sym.file, sym.name))
    \/ \E t \in Threads : RemoveFileName(t)
    \/ \E t \in Threads : RemoveFileNameEntry(t)
    \/ \E t \in Threads : RemoveFileReturn(t)

-----------------------------------------------------------------------------
(* SymbolTable::add_caller called from several threads.  The RefMut that   *)
(* `entry(..).or_default()` returns holds the write lock of the entry's    *)
(* shard until the statement ends, so the call is two steps, taking the    *)
(* entry and pushing into it, and no other call is inside the same entry   *)
(* in between.  inflight maps the number of a call to where it is; a call  *)
(* passes its number as the line of its call site, which tells the         *)
(* CallerRefs of the calls apart.                                          *)

\* A call that passes the entry lock while another call holds it.
EntryNeverLocked(callee) == TRUE

\* No call holds the entry of callee.
EntryFree(callee) ==
    \A m \in DOMAIN inflight :
        ~(inflight[m].pc = "locked" /\ inflight[m].callee = callee)

\* add_caller(callee_name, file, line, text) is called; `after` is the set
\* of calls that had returned by then.
AddCallerCall(callee, file) ==
    LET n == Cardinality(DOMAIN inflight) + 1
    IN  /\ n <= MaxCalls
        /\ inflight' = MapPut(inflight, n,
               [pc |-> "called", callee |-> callee,
                ref |-> [file |-> file, line |-> n, text |-> "c()"],
                list |-> <<>>,
                after |-> {m \in DOMAIN inflight : inflight[m].pc = "done"}])
        /\ UNCHANGED <<symbols, by_name, by_file, reverse_call_graph, lastOp>>
        /\ UNCHANGED notTable

\* self.reverse_call_graph.entry(callee_name.to_string()).or_default()
AddCallerEntry(n) ==
    /\ n \in DOMAIN inflight
    /\ inflight[n].pc = "called"
    /\ EntryFree(inflight[n].callee)
    /\ reverse_call_graph' =
           IF inflight[n].callee \in DOMAIN reverse_call_graph
           THEN reverse_call_graph
           ELSE MapPut(reverse_call_graph, inflight[n].callee, <<>>)
    /\ inflight' = [inflight EXCEPT ![n].pc = "locked",
                        ![n].list = reverse_call_graph'[inflight[n].callee]]
    /\ UNCHANGED <<symbols, by_name, by_file, lastOp>>
    /\ UNCHANGED notTable

\* .push(CallerRef {..}), and the RefMut is dropped
AddCallerPush(n) ==
    /\ n \in DOMAIN inflight
    /\ inflight[n].pc = "locked"
    /\ reverse_call_graph' =
           MapPut(reverse_call_graph, inflight[n].callee,
                  Append(inflight[n].list, inflight[n].ref))
    /\ inflight' = [inflight EXCEPT ![n].pc = "done"]
    /\ lastOp' = [op |-> "add_caller", file |-> inflight[n].ref.file]
    /\ UNCHANGED <<symbols, by_name, by_file>>
    /\ UNCHANGED notTable

CallersNext ==
    \/ \E callee \in Names, file \in Files : AddCallerCall(callee, file)
    \/ \E n \in 1..MaxCalls : AddCallerEntry(n)
    \/ \E n \in 1..MaxCalls : AddCallerPush(n)

-----------------------------------------------------------------------------
(* server/routes.rs: the handlers of the session-scoped endpoints.  One    *)
(* handler of each shape is modelled: with and without a REPL lookup, with *)
(* and without a history entry, and GET /history, which resolves the       *)
(* session itself.  get_project_for_session (server/state.rs) is a lookup  *)
(* of the session and of its project.                                      *)

NoHeader == 0       \* session_id(&headers) is None

\* The X-Session-Id of a request: none, a live session, an unknown id.
Headers == {NoHeader, 1, 9}

NoRequest ==
    [endpoint |-> "none", header |-> NoHeader, arg |-> "", status |-> "none",
     time |-> 0, before |-> <<>>]

\* data.file_definitions, data.file_marks, data.symbol_definitions: no file
\* and no symbol is annotated.
NoNotes ==
    [file_definitions |-> EmptyMap, file_marks |-> EmptyMap,
     symbol_definitions |-> EmptyMap]

RoutesParked == http = NoRequest /\ notes = NoNotes

\* Two indexed projects; session 1 is bound to the first.
RoutesInit ==
    /\ projects = [r \in {"/p1", "/p2"} |-> [last_active |-> 0]]
    /\ sessions = [sid \in {1} |->
                      [project_path |-> "/p1", last_active |-> 0, history |-> <<>>]]
    /\ req = [h \in Tasks |-> Idle]
    /\ now = 1
    /\ nextSid = 2
    /\ http = NoRequest
    /\ notes = NoNotes

\* What a handler finds when it is called.
StateNow ==
    [projects |-> projects, sessions |-> sessions, buffers |-> buffers,
     notes |-> notes]

\* arg is the file or symbol a handler passed to its operation; a handler
\* that ended before, or that has none, leaves it empty.
Answer(endpoint, header, status) ==
    [endpoint |-> endpoint, header |-> header, arg |-> "", status |-> status,
     time |-> now, before |-> StateNow]

\* require_session letting a request without the header through.
require_session_lenient(header) == "ok"

\* require_session
require_session(header) ==
    IF header = NoHeader THEN "BadRequest" ELSE "ok"

\* state.get_project_for_session(&sid): the session, then its project, are
\* looked up; an unknown session or project is NotFound.
get_project_for_session(sid) ==
    IF sid \notin DOMAIN sessions THEN "NotFound"
    ELSE IF sessions[sid].project_path \notin DOMAIN projects THEN "NotFound"
    ELSE "ok"

\* require_project up to `state.get_project_for_session(&sid)?`
ResolveStatus(header) ==
    IF require_session(header) # "ok" THEN require_session(header)
    ELSE get_project_for_session(header)

\* state.touch_project(&project.root)
touch_project(ps, root, t) ==
    IF root \in DOMAIN ps THEN [ps EXCEPT ![root].last_active = t] ELSE ps

\* require_project after the lookup: touch_project, session.last_active
TouchSession(ss, sid, t) ==
    IF sid \in DOMAIN ss THEN [ss EXCEPT ![sid].last_active = t] ELSE ss

\* A record_history that keeps the latest entry only.
RecordHistoryLatestOnly(ss, sid, method, path, preview, t) ==
    IF sid \in DOMAIN ss
    THEN [ss EXCEPT ![sid].history =
                       record([history |-> <<>>, last_active |-> t],
                              method, path, preview, t).history,
                    ![sid].last_active = t]
    ELSE ss

\* record_history: Session::record on the session, when there is one
RecordHistory(ss, sid, method, path, preview, t) ==
    IF sid \in DOMAIN ss
    THEN LET r == record([history |-> ss[sid].history,
                          last_active |-> ss[sid].last_active],
                         method, path, preview, t)
         IN  [ss EXCEPT ![sid].history = r.history,
                        ![sid].last_active = r.last_active]
    ELSE ss

\* A handler ends at `require_project(&state, &headers)?`
Rejected(endpoint, header) ==
    /\ ResolveStatus(header) # "ok"
    /\ http' = Answer(endpoint, header, ResolveStatus(header))
    /\ UNCHANGED <<projects, sessions, buffers, notes>>

\* A handler that records its history entry whether or not its operation
\* succeeded.
HandleAsRecordsFailures(endpoint, header, arg, op, err, records, method, path, preview) ==
    /\ ResolveStatus(header) = "ok"
    /\ projects' = touch_project(projects, sessions[header].project_path, now)
    /\ buffers' = op.buffers
    /\ notes' = op.notes
    /\ sessions' = IF records
                   THEN RecordHistory(TouchSession(sessions, header, now),
                                      header, method, path, preview, now)
                   ELSE TouchSession(sessions, header, now)
    /\ http' = [Answer(endpoint, header, IF op.ok THEN "ok" ELSE err)
                   EXCEPT !.arg = arg]

\* A handler that runs an operation `op` after require_project (and
\* require_repl) and then, unless the operation failed or the handler
\* records nothing, calls record_history.
\*   op = [ok, buffers, notes]   the outcome of the operation
\*   err                         the AppError of its `.map_err(..)?`
HandleAs(endpoint, header, arg, op, err, records, method, path, preview) ==
    /\ ResolveStatus(header) = "ok"
    /\ projects' = touch_project(projects, sessions[header].project_path, now)
    /\ buffers' = op.buffers
    /\ notes' = op.notes
    /\ sessions' = IF op.ok /\ records
                   THEN RecordHistory(TouchSession(sessions, header, now),
                                      header, method, path, preview, now)
                   ELSE TouchSession(sessions, header, now)
    /\ http' = [Answer(endpoint, header, IF op.ok THEN "ok" ELSE err)
                   EXCEPT !.arg = arg]

\* A handler of the buffers whose operation fails with NotFound.
\*   op = [ok, buffers]
Handle(endpoint, header, op, records, method, path, preview) ==
    HandleAs(endpoint, header, "",
             [ok |-> op.ok, buffers |-> op.buffers, notes |-> notes],
             "NotFound", records, method, path, preview)

RouteFrame ==
    /\ now < MaxClock
    /\ now' = now + 1
    /\ UNCHANGED notRoutes

\* GET /symbols/search
search_symbols(header) ==
    /\ RouteFrame
    /\ \/ Rejected("GET /symbols/search", header)
       \/ Handle("GET /symbols/search", header, [ok |-> TRUE, buffers |-> buffers],
                 TRUE, "GET", "/symbols/search", <<97>>)

\* POST /buffers
create_buffer(header, name, content) ==
    /\ RouteFrame
    /\ FromBufferOk(content)
    /\ \/ Rejected("POST /buffers", header)
       \/ Handle("POST /buffers", header,
                 [ok |-> TRUE,
                  buffers |-> MapPut(buffers, name,
                                     [content |-> content, source |-> "computed"])],
                 TRUE, "POST", "/buffers", <<98>>)

\* GET /buffers/{name}
get_buffer_info(header, name) ==
    /\ RouteFrame
    /\ \/ Rejected("GET /buffers/{name}", header)
       \/ Handle("GET /buffers/{name}", header,
                 [ok |-> name \in DOMAIN buffers, buffers |-> buffers],
                 FALSE, "", "", <<>>)

\* DELETE /buffers/{name}
delete_buffer(header, name) ==
    /\ RouteFrame
    /\ \/ Rejected("DELETE /buffers/{name}", header)
       \/ Handle("DELETE /buffers/{name}", header,
                 [ok |-> name \in DOMAIN buffers,
                  buffers |-> IF name \in DOMAIN buffers
                              THEN MapRemove(buffers, name) ELSE buffers],
                 TRUE, "DELETE", "/buffers", <<98>>)

\* POST /history/compact
post_history_compact(header, keep_recent) ==
    /\ RouteFrame
    /\ \/ Rejected("POST /history/compact", header)
       \/ /\ ResolveStatus(header) = "ok"
          /\ projects' = touch_project(projects, sessions[header].project_path, now)
          /\ LET r == CompactHistory(sessions[header].history, keep_recent)
                 ss == [TouchSession(sessions, header, now)
                           EXCEPT ![header].history = r.history]
             IN  sessions' = RecordHistory(ss, header, "POST", "/history/compact",
                                           CompactedBytes, now)
          /\ http' = Answer("POST /history/compact", header, "ok")
          /\ UNCHANGED <<buffers, notes>>

\* GET /history: with a header the history of that session, without one the
\* histories of all sessions
get_history(header) ==
    /\ RouteFrame
    /\ http' = Answer("GET /history", header,
                      IF header = NoHeader THEN "ok"
                      ELSE get_project_for_session(header))
    /\ UNCHANGED <<projects, sessions, buffers, notes>>

RoutesNext ==
    \/ \E header \in Headers : search_symbols(header)
    \/ \E header \in Headers : create_buffer(header, "b", <<97>>)
    \/ \E header \in Headers : get_buffer_info(header, "b")
    \/ \E header \in Headers : delete_buffer(header, "b")
    \/ \E header \in Headers : post_history_compact(header, 0)
    \/ \E header \in Headers : get_history(header)

-----------------------------------------------------------------------------
(* server/routes.rs: the handlers whose operation can fail.  Project /p1   *)
(* has the files "a.x" (readable), "gone.x" (indexed, no longer readable)  *)
(* and "bad.pdf" (indexed, its conversion fails); "ghost.x" is not in the  *)
(* file tree.  Its symbol table has one symbol in each indexed file.       *)

PdfFiles == {"bad.pdf"}

TreeFiles == IndexedFiles \cup PdfFiles

RequestFiles == TreeFiles \cup {"ghost.x"}

\* <<file, name>> of the symbols in the table, and one that is not there.
TableSymbols == {<<"a.x", "s1">>, <<"gone.x", "s2">>, <<"bad.pdf", "s3">>}

RequestSymbols == TableSymbols \cup {<<"ghost.x", "bar">>}

\* `let source = if entry.language == Language::Pdf { convert_pdf(..) }
\*  else { read_to_string(..) }` with its two map_err
LoadSource(file) ==
    IF file \in PdfFiles THEN [ok |-> FALSE, source |-> <<>>]
    ELSE IF file = "a.x" THEN [ok |-> TRUE, source |-> fileText]
    ELSE [ok |-> FALSE, source |-> <<>>]

\* A buffer_from_file that stores an empty buffer under the name before it
\* looks for the file.
FromFileOpEager(bufs, name, file) ==
    IF file \notin TreeFiles \/ ~LoadSource(file).ok
    THEN [ok |-> FALSE,
          buffers |-> MapPut(bufs, name, [content |-> <<>>, source |-> "file"]),
          notes |-> notes]
    ELSE [ok |-> TRUE,
          buffers |-> MapPut(bufs, name,
                        [content |-> FileSlice(LoadSource(file).source, 0,
                                               DefaultEndLine).content,
                         source |-> "file"]),
          notes |-> notes]

\* repl::buffer_from_file(&repl, .., name, file, 0, 100) on the buffers bufs
FromFileOp(bufs, name, file) ==
    IF file \notin TreeFiles \/ ~LoadSource(file).ok
    THEN [ok |-> FALSE, buffers |-> bufs, notes |-> notes]
    ELSE [ok |-> TRUE,
          buffers |-> MapPut(bufs, name,
                        [content |-> FileSlice(LoadSource(file).source, 0,
                                               DefaultEndLine).content,
                         source |-> "file"]),
          notes |-> notes]

\* repl::buffer_from_symbol(&repl, .., name, symbol_name, file) on the
\* buffers bufs; the symbol of "a.x" spans the whole file
FromSymbolOp(bufs, name, symbol_name, file) ==
    IF <<file, symbol_name>> \notin TableSymbols \/ ~LoadSource(file).ok
    THEN [ok |-> FALSE, buffers |-> bufs, notes |-> notes]
    ELSE [ok |-> TRUE,
          buffers |-> MapPut(bufs, name,
                        [content |-> LoadSource(file).source,
                         source |-> "symbol"]),
          notes |-> notes]

\* repl::semantic_chunks(.., file, max_bytes) up to the source it chunks
ChunksOp(file) ==
    [ok |-> file \in TreeFiles /\ LoadSource(file).ok, buffers |-> buffers,
     notes |-> notes]

\* symbol_ops::get_implementation: the symbol is looked up and its file read
ImplementationOp(symbol, file) ==
    [ok |-> <<file, symbol>> \in TableSymbols /\ LoadSource(file).ok,
     buffers |-> buffers, notes |-> notes]

\* structure::define_file, redefine_file, mark_file and
\* symbol_ops::define_symbol, redefine_symbol: the outcomes of annotating
\* `key` in `field`.  An unknown file or symbol is an error; define sets a
\* definition only where there is none, and whether it then reports an
\* error is left open; redefine and mark overwrite.
Annotate(field, known, key, text, overwrite) ==
    IF ~known THEN {[ok |-> FALSE, buffers |-> buffers, notes |-> notes]}
    ELSE IF ~overwrite /\ key \in DOMAIN notes[field]
    THEN {[ok |-> b, buffers |-> buffers, notes |-> notes] : b \in BOOLEAN}
    ELSE {[ok |-> TRUE, buffers |-> buffers,
           notes |-> [notes EXCEPT ![field] = MapPut(@, key, text)]]}

\* The handlers of POST /structure/{define,redefine,mark}; `&body.file` is
\* the preview of the history entry.
AnnotateFile(endpoint, path, field, overwrite, header, file, text) ==
    /\ RouteFrame
    /\ \/ Rejected(endpoint, header)
       \/ \E op \in Annotate(field, file \in TreeFiles, file, text, overwrite) :
             HandleAs(endpoint, header, file, op, "BadRequest", TRUE, "POST",
                      path, <<102>>)

\* The handlers of POST /symbols/{define,redefine}; `&body.symbol` is the
\* preview of the history entry.
AnnotateSymbol(endpoint, path, overwrite, header, sym, text) ==
    /\ RouteFrame
    /\ \/ Rejected(endpoint, header)
       \/ \E op \in Annotate("symbol_definitions", sym \in TableSymbols,
                            make_key(sym[1], sym[2]), text, overwrite) :
             HandleAs(endpoint, header, make_key(sym[1], sym[2]), op,
                      "BadRequest", TRUE, "POST", path, <<115>>)

\* POST /structure/define
define_file(header, file, definition) ==
    AnnotateFile("POST /structure/define", "/structure/define",
                 "file_definitions", FALSE, header, file, definition)

\* POST /structure/redefine
redefine_file(header, file, definition) ==
    AnnotateFile("POST /structure/redefine", "/structure/redefine",
                 "file_definitions", TRUE, header, file, definition)

\* POST /structure/mark
mark_file(header, file, mark) ==
    AnnotateFile("POST /structure/mark", "/structure/mark", "file_marks",
                 TRUE, header, file, mark)

\* POST /symbols/define
define_symbol(header, sym, definition) ==
    AnnotateSymbol("POST /symbols/define", "/symbols/define", FALSE, header,
                   sym, definition)

\* POST /symbols/redefine
redefine_symbol(header, sym, definition) ==
    AnnotateSymbol("POST /symbols/redefine", "/symbols/redefine", TRUE,
                   header, sym, definition)

\* GET /symbols/implementation
get_implementation(header, sym) ==
    /\ RouteFrame
    /\ \/ Rejected("GET /symbols/implementation", header)
       \/ HandleAs("GET /symbols/implementation", header,
                   make_key(sym[1], sym[2]), ImplementationOp(sym[2], sym[1]),
                   "NotFound", TRUE, "GET", "/symbols/implementation", <<97>>)

\* POST /buffers/from-file
post_buffer_from_file(header, name, file) ==
    /\ RouteFrame
    /\ \/ Rejected("POST /buffers/from-file", header)
       \/ HandleAs("POST /buffers/from-file", header, file,
                   FromFileOp(buffers, name, file), "NotFound", TRUE, "POST",
                   "/buffers/from-file", <<98>>)

\* POST /buffers/from-symbol
post_buffer_from_symbol(header, name, sym) ==
    /\ RouteFrame
    /\ \/ Rejected("POST /buffers/from-symbol", header)
       \/ HandleAs("POST /buffers/from-symbol", header,
                   make_key(sym[1], sym[2]),
                   FromSymbolOp(buffers, name, sym[2], sym[1]),
                   "NotFound", TRUE, "POST", "/buffers/from-symbol", <<98>>)

\* GET /semantic_chunks
get_semantic_chunks(header, file) ==
    /\ RouteFrame
    /\ \/ Rejected("GET /semantic_chunks", header)
       \/ HandleAs("GET /semantic_chunks", header, file, ChunksOp(file),
                   "NotFound", TRUE, "GET", "/semantic_chunks", <<97>>)

\* The targets of the annotation requests: one that exists, one that does
\* not.
NoteFiles == {"a.x", "ghost.x"}

NoteSymbols == {<<"a.x", "s1">>, <<"a.x", "zz">>}

FailingNext ==
    \/ \E header \in Headers, file \in NoteFiles : define_file(header, file, "d")
    \/ \E header \in Headers, file \in NoteFiles : redefine_file(header, file, "e")
    \/ \E header \in Headers, file \in NoteFiles : mark_file(header, file, "m")
    \/ \E header \in Headers, sym \in NoteSymbols : define_symbol(header, sym, "d")
    \/ \E header \in Headers, sym \in NoteSymbols : redefine_symbol(header, sym, "e")
    \/ \E header \in Headers, sym \in RequestSymbols :
          get_implementation(header, sym)
    \/ \E header \in Headers, file \in RequestFiles :
          post_buffer_from_file(header, "b", file)
    \/ \E header \in Headers, sym \in RequestSymbols :
          post_buffer_from_symbol(header, "b", sym)
    \/ \E header \in Headers, file \in RequestFiles :
          get_semantic_chunks(header, file)
    \/ \E header \in Headers : get_buffer_info(header, "b")

-----------------------------------------------------------------------------
(* server/session.rs, server/routes.rs, ops/repl.rs: the scratchpads of    *)
(* two sessions bound to one project.  A ReplState lives behind an Arc:    *)
(* heap maps the address of each ReplState to it, and a session holds the  *)
(* address Session::new got.  own is what each session's own requests, and *)
(* no others, make of its scratchpad and history, and the last completed   *)
(* write of each of its names; replOp.expected is the answer to the last   *)
(* request computed from own.                                              *)

PadNames == {"b", "c"}

VarNames == {"Final", "v"}

\* The subcall list of a fresh ReplState: a mutex-guarded empty list.
SubcallResultsDefault == <<>>

\* ReplState::default()
ReplStateDefault ==
    [buffers |-> EmptyMap, variables |-> EmptyMap,
     subcall_results |-> SubcallResultsDefault]

\* A Session::new that hands every session the first ReplState.
SessionNewSharesRepl(id, project_path, t, arc) ==
    [project_path |-> project_path, last_active |-> t, history |-> <<>>,
     repl_state |-> 1]

\* Session::new(id, project_path) at time t; arc is the address of the
\* allocation `Arc::new(ReplState::default())` makes
SessionNew(id, project_path, t, arc) ==
    [project_path |-> project_path, last_active |-> t, history |-> <<>>,
     repl_state |-> arc]

\* require_repl: session.repl_state.clone() of a stored session
require_repl(sid) == sessions[sid].repl_state

\* BufferInfo::from_buffer
from_buffer(name, buf) ==
    [name |-> name, size_bytes |-> Len(buf.content),
     line_count |-> Len(lines(buf.content)), source |-> buf.source,
     preview |-> IF Len(buf.content) > PreviewBytes
                 THEN Slice(buf.content, 0, PreviewBytes) \o <<46, 46, 46>>
                 ELSE buf.content]

NoReplRequest ==
    [endpoint |-> "none", header |-> 0, name |-> "", status |-> "none",
     response |-> [ok |-> TRUE], expected |-> [ok |-> TRUE]]

ReplParked == heap = EmptyMap /\ own = EmptyMap /\ replOp = NoReplRequest

\* Two sessions have been created for /p1, whose file "a.x" is "a\nb".
ReplInit ==
    /\ projects = [r \in {"/p1"} |-> [last_active |-> 0]]
    /\ sessions = [sid \in {1, 2} |-> SessionNew(sid, "/p1", 0, sid)]
    /\ heap = [arc \in {1, 2} |-> ReplStateDefault]
    /\ own = [sid \in {1, 2} |->
                 [repl |-> ReplStateDefault, history |-> <<>>, wrote |-> EmptyMap]]
    /\ req = [h \in Tasks |-> Idle]
    /\ now = 1
    /\ nextSid = 3
    /\ fileText = <<97, 10, 98>>
    /\ buffers = EmptyMap
    /\ bufOp = NoOp
    /\ replOp = NoReplRequest

\* A var_set that keeps the value a variable already has.
var_set_if_absent(r, name, value) ==
    IF name \in DOMAIN r.variables THEN r
    ELSE [r EXCEPT !.variables = MapPut(@, name, value)]

\* var_set
var_set(r, name, value) == [r EXCEPT !.variables = MapPut(@, name, value)]

\* A lock() that does not wait.
MutexNeverHeld(arc) == TRUE

\* No handler holds `repl.subcall_results.lock()` of the ReplState at arc.
MutexFree(arc) ==
    \A h \in Tasks : ~(req[h].pc = "locked" /\ req[h].arc = arc)

\* The handler of a REPL endpoint, called with the X-Session-Id sid:
\* require_project, require_repl, the operation Op on the ReplState, and
\* record_history unless the operation failed or the handler records
\* nothing.  out = [ok, repl, response] is the operation on the ReplState
\* of the session, mine the same operation on what the session's own
\* requests produce; wrote is the last completed write of each name after
\* the request.
Serve(endpoint, sid, name, out, mine, wrote, records, method, path, preview) ==
    LET arc == require_repl(sid)
    IN  /\ now <= MaxRequests
        /\ now' = now + 1
        /\ projects' = touch_project(projects, sessions[sid].project_path, now)
        /\ heap' = [heap EXCEPT ![arc] = out.repl]
        /\ sessions' = IF out.ok /\ records
                       THEN RecordHistory(TouchSession(sessions, sid, now),
                                          sid, method, path, preview, now)
                       ELSE TouchSession(sessions, sid, now)
        /\ own' = [own EXCEPT ![sid] =
                      [repl |-> mine.repl,
                       history |-> IF mine.ok /\ records
                                   THEN record(@, method, path, preview, now).history
                                   ELSE @.history,
                       wrote |-> wrote]]
        /\ replOp' = [endpoint |-> endpoint, header |-> sid, name |-> name,
                      status |-> IF out.ok THEN "ok" ELSE "NotFound",
                      response |-> out.response, expected |-> mine.response]
        /\ UNCHANGED <<req, nextSid, fileText, buffers, bufOp>>
        /\ UNCHANGED <<tableVars, chunkVars, histVars, extVars, routeVars, auxVars>>

Wrote(sid, kind, name, value) ==
    MapPut(own[sid].wrote, <<kind, name>>, [set |-> TRUE, value |-> value])

Unset(sid, kind, name) ==
    MapPut(own[sid].wrote, <<kind, name>>, [set |-> FALSE])

NotFound(r) == [ok |-> FALSE, repl |-> r, response |-> [err |-> "NotFound"]]

\* POST /buffers: repl::buffer_create
repl_create_buffer(sid, name, content) ==
    LET Op(r) ==
            LET buf == [content |-> content, source |-> "computed"]
            IN  [ok |-> TRUE,
                 repl |-> [r EXCEPT !.buffers = MapPut(@, name, buf)],
                 response |-> from_buffer(name, buf)]
    IN  Serve("POST /buffers", sid, name,
              Op(heap[require_repl(sid)]), Op(own[sid].repl),
              Wrote(sid, "buffer", name, content), TRUE, "POST", "/buffers", <<98>>)

\* POST /buffers/from-file: repl::buffer_from_file
repl_buffer_from_file(sid, name, file) ==
    LET Op(r) ==
            LET op == FromFileOp(r.buffers, name, file)
            IN  [ok |-> op.ok, repl |-> [r EXCEPT !.buffers = op.buffers],
                 response |-> IF op.ok THEN from_buffer(name, op.buffers[name])
                              ELSE [err |-> "NotFound"]]
    IN  Serve("POST /buffers/from-file", sid, name,
              Op(heap[require_repl(sid)]), Op(own[sid].repl),
              IF file = "a.x"
              THEN Wrote(sid, "buffer", name,
                         FileSlice(fileText, 0, DefaultEndLine).content)
              ELSE own[sid].wrote,
              TRUE, "POST", "/buffers/from-file", <<98>>)

\* POST /buffers/from-symbol: repl::buffer_from_symbol
repl_buffer_from_symbol(sid, name, sym) ==
    LET Op(r) ==
            LET op == FromSymbolOp(r.buffers, name, sym[2], sym[1])
            IN  [ok |-> op.ok, repl |-> [r EXCEPT !.buffers = op.buffers],
                 response |-> IF op.ok THEN from_buffer(name, op.buffers[name])
                              ELSE [err |-> "NotFound"]]
    IN  Serve("POST /buffers/from-symbol", sid, name,
              Op(heap[require_repl(sid)]), Op(own[sid].repl),
              IF sym = <<"a.x", "s1">> THEN Wrote(sid, "buffer", name, fileText)
              ELSE own[sid].wrote,
              TRUE, "POST", "/buffers/from-symbol", <<98>>)

\* GET /buffers: repl::buffer_list; the order of the list is the order of
\* the map's iteration, so the answer is taken as a set
list_buffers(sid) ==
    LET Op(r) ==
            [ok |-> TRUE, repl |-> r,
             response |-> [buffers |-> {from_buffer(n, r.buffers[n]) :
                                           n \in DOMAIN r.buffers}]]
    IN  Serve("GET /buffers", sid, "",
              Op(heap[require_repl(sid)]), Op(own[sid].repl),
              own[sid].wrote, TRUE, "GET", "/buffers", <<98>>)

\* GET /buffers/{name}: repl::buffer_info
repl_get_buffer_info(sid, name) ==
    LET Op(r) ==
            IF name \in DOMAIN r.buffers
            THEN [ok |-> TRUE, repl |-> r,
                  response |-> from_buffer(name, r.buffers[name])]
            ELSE NotFound(r)
    IN  Serve("GET /buffers/{name}", sid, name,
              Op(heap[require_repl(sid)]), Op(own[sid].repl),
              own[sid].wrote, FALSE, "", "", <<>>)

\* GET /buffers/{name}/peek without start and end: repl::buffer_peek
peek_buffer(sid, name) ==
    LET Op(r) ==
            IF name \in DOMAIN r.buffers
            THEN LET content == r.buffers[name].content
                 IN  [ok |-> TRUE, repl |-> r,
                      response |->
                         [content |-> Slice(content, Min(0, Len(content)),
                                            Min(DefaultPeekEnd, Len(content)))]]
            ELSE NotFound(r)
    IN  Serve("GET /buffers/{name}/peek", sid, name,
              Op(heap[require_repl(sid)]), Op(own[sid].repl),
              own[sid].wrote, FALSE, "", "", <<>>)

\* DELETE /buffers/{name}: repl::buffer_delete
repl_delete_buffer(sid, name) ==
    LET Op(r) ==
            IF name \in DOMAIN r.buffers
            THEN [ok |-> TRUE,
                  repl |-> [r EXCEPT !.buffers = MapRemove(@, name)],
                  response |-> [deleted |-> TRUE]]
            ELSE NotFound(r)
    IN  Serve("DELETE /buffers/{name}", sid, name,
              Op(heap[require_repl(sid)]), Op(own[sid].repl),
              Unset(sid, "buffer", name), TRUE, "DELETE", "/buffers", <<98>>)

\* POST /vars: repl::var_set
set_var(sid, name, value) ==
    LET Op(r) == [ok |-> TRUE, repl |-> var_set(r, name, value),
                      response |-> [ok |-> TRUE]]
    IN  Serve("POST /vars", sid, name,
              Op(heap[require_repl(sid)]), Op(own[sid].repl),
              Wrote(sid, "var", name, value), TRUE, "POST", "/vars", <<118>>)

\* GET /vars/{name}: repl::var_get
get_var(sid, name) ==
    LET Op(r) ==
            IF name \in DOMAIN r.variables
            THEN [ok |-> TRUE, repl |-> r,
                  response |-> [value |-> r.variables[name]]]
            ELSE NotFound(r)
    IN  Serve("GET /vars/{name}", sid, name,
              Op(heap[require_repl(sid)]), Op(own[sid].repl),
              own[sid].wrote, FALSE, "", "", <<>>)

\* GET /vars: repl::var_list, as a set for the same reason as list_buffers
list_vars(sid) ==
    LET Op(r) ==
            [ok |-> TRUE, repl |-> r,
             response |-> [variables |-> {<<n, r.variables[n]>> :
                                             n \in DOMAIN r.variables}]]
    IN  Serve("GET /vars", sid, "",
              Op(heap[require_repl(sid)]), Op(own[sid].repl),
              own[sid].wrote, FALSE, "", "", <<>>)

\* DELETE /vars/{name}: repl::var_delete
delete_var(sid, name) ==
    LET Op(r) ==
            IF name \in DOMAIN r.variables
            THEN [ok |-> TRUE,
                  repl |-> [r EXCEPT !.variables = MapRemove(@, name)],
                  response |-> [deleted |-> TRUE]]
            ELSE NotFound(r)
    IN  Serve("DELETE /vars/{name}", sid, name,
              Op(heap[require_repl(sid)]), Op(own[sid].repl),
              Unset(sid, "var", name), TRUE, "DELETE", "/vars", <<118>>)

\* GET /vars/final: repl::check_final
check_final(sid) ==
    LET Op(r) ==
            [ok |-> TRUE, repl |-> r,
             response |-> IF "Final" \in DOMAIN r.variables
                          THEN [is_set |-> TRUE, value |-> r.variables["Final"]]
                          ELSE [is_set |-> FALSE]]
    IN  Serve("GET /vars/final", sid, "Final",
              Op(heap[require_repl(sid)]), Op(own[sid].repl),
              own[sid].wrote, FALSE, "", "", <<>>)

\* POST /subcall_results: repl::add_subcall_result, run to completion
store_subcall_result(sid, chunk_id) ==
    LET Op(r) ==
            [ok |-> TRUE,
             repl |-> [r EXCEPT !.subcall_results =
                          Append(@, [chunk_id |-> chunk_id, created_at |-> now])],
             response |-> [ok |-> TRUE]]
    IN  Serve("POST /subcall_results", sid, "",
              Op(heap[require_repl(sid)]), Op(own[sid].repl),
              own[sid].wrote, TRUE, "POST", "/subcall_results", <<107>>)

\* GET /subcall_results: repl::list_subcall_results
list_subcall_results(sid) ==
    /\ MutexFree(require_repl(sid))
    /\ LET Op(r) == [ok |-> TRUE, repl |-> r,
                         response |-> [results |-> r.subcall_results]]
       IN  Serve("GET /subcall_results", sid, "",
                 Op(heap[require_repl(sid)]), Op(own[sid].repl),
                 own[sid].wrote, FALSE, "", "", <<>>)

\* DELETE /subcall_results: repl::clear_subcall_results
clear_subcall_results(sid) ==
    /\ MutexFree(require_repl(sid))
    /\ LET Op(r) == [ok |-> TRUE, repl |-> [r EXCEPT !.subcall_results = <<>>],
                         response |-> [ok |-> TRUE]]
       IN  Serve("DELETE /subcall_results", sid, "",
                 Op(heap[require_repl(sid)]), Op(own[sid].repl),
                 own[sid].wrote, TRUE, "DELETE", "/subcall_results",
                 <<99, 108, 101, 97, 114, 101, 100>>)

\* The sum of the lengths of the contents of the buffers named in names.
RECURSIVE BufferBytes(_, _)
BufferBytes(bufs, names) ==
    IF names = {} THEN 0
    ELSE LET n == CHOOSE x \in names : TRUE
         IN  Len(bufs[n].content) + BufferBytes(bufs, names \ {n})

\* GET /context_budget; a variable of the model is a one-digit number, one
\* byte of JSON
context_budget(sid) ==
    /\ MutexFree(require_repl(sid))
    /\ LET Op(r) ==
               [ok |-> TRUE, repl |-> r,
                response |->
                   [buffer_count |-> Cardinality(DOMAIN r.buffers),
                    buffer_bytes |-> BufferBytes(r.buffers, DOMAIN r.buffers),
                    variable_count |-> Cardinality(DOMAIN r.variables),
                    variable_bytes |-> Cardinality(DOMAIN r.variables),
                    subcall_count |-> Len(r.subcall_results)]]
       IN  Serve("GET /context_budget", sid, "",
                 Op(heap[require_repl(sid)]), Op(own[sid].repl),
                 own[sid].wrote, FALSE, "", "", <<>>)

ReplNext ==
    \/ \E sid \in {1, 2}, c \in {<<"b", <<97>>>>, <<"b", <<98>>>>, <<"c", <<97>>>>} :
          repl_create_buffer(sid, c[1], c[2])
    \/ \E sid \in {1, 2}, file \in BufFiles : repl_buffer_from_file(sid, "b", file)
    \/ \E sid \in {1, 2}, sym \in {<<"a.x", "s1">>, <<"ghost.x", "bar">>} :
          repl_buffer_from_symbol(sid, "b", sym)
    \/ \E sid \in {1, 2} : list_buffers(sid)
    \/ \E sid \in {1, 2} : repl_get_buffer_info(sid, "b")
    \/ \E sid \in {1, 2} : peek_buffer(sid, "b")
    \/ \E sid \in {1, 2}, name \in PadNames : repl_delete_buffer(sid, name)
    \/ \E sid \in {1, 2}, v \in {<<"Final", 1>>, <<"Final", 2>>, <<"v", 1>>} :
          set_var(sid, v[1], v[2])
    \/ \E sid \in {1, 2}, name \in VarNames : get_var(sid, name)
    \/ \E sid \in {1, 2} : list_vars(sid)
    \/ \E sid \in {1, 2}, name \in VarNames : delete_var(sid, name)
    \/ \E sid \in {1, 2} : check_final(sid)
    \/ \E sid \in {1, 2} : store_subcall_result(sid, "k1")
    \/ \E sid \in {1, 2} : list_subcall_results(sid)
    \/ \E sid \in {1, 2} : clear_subcall_results(sid)
    \/ \E sid \in {1, 2} : context_budget(sid)

-----------------------------------------------------------------------------
(* store_subcall_result called from two handler tasks at once.             *)
(* `repl.subcall_results.lock().push(result)` takes the mutex, reads the   *)
(* Vec and writes it with the result appended; req[h] is where the handler *)
(* task h is.                                                              *)

\* require_project and require_repl have returned, the SubcallResult is
\* built
SubcallBegin(h, sid, chunk_id) ==
    /\ req[h].pc = "idle"
    /\ now <= MaxRequests
    /\ now' = now + 1
    /\ projects' = touch_project(projects, sessions[sid].project_path, now)
    /\ sessions' = TouchSession(sessions, sid, now)
    /\ req' = [req EXCEPT ![h] =
                  [pc |-> "built", sid |-> sid, arc |-> require_repl(sid),
                   result |-> [chunk_id |-> chunk_id, created_at |-> now],
                   list |-> <<>>]]
    /\ UNCHANGED <<heap, own, replOp, nextSid, fileText, buffers, bufOp>>
    /\ UNCHANGED <<tableVars, chunkVars, histVars, extVars, routeVars, auxVars>>

\* repl.subcall_results.lock()
SubcallLock(h) ==
    /\ req[h].pc = "built"
    /\ MutexFree(req[h].arc)
    /\ req' = [req EXCEPT ![h].pc = "locked",
                          ![h].list = heap[req[h].arc].subcall_results]
    /\ UNCHANGED <<heap, own, replOp, projects, sessions, now, nextSid,
                   fileText, buffers, bufOp>>
    /\ UNCHANGED <<tableVars, chunkVars, histVars, extVars, routeVars, auxVars>>

\* .push(result), and the guard is dropped
SubcallPush(h) ==
    /\ req[h].pc = "locked"
    /\ heap' = [heap EXCEPT ![req[h].arc].subcall_results =
                   Append(req[h].list, req[h].result)]
    /\ own' = [own EXCEPT ![req[h].sid].repl.subcall_results =
                  Append(@, req[h].result)]
    /\ req' = [req EXCEPT ![h].pc = "pushed"]
    /\ UNCHANGED <<replOp, projects, sessions, now, nextSid, fileText, buffers,
                   bufOp>>
    /\ UNCHANGED <<tableVars, chunkVars, histVars, extVars, routeVars, auxVars>>

\* record_history(.., "POST", "/subcall_results", &body.chunk_id)
SubcallRecord(h) ==
    /\ req[h].pc = "pushed"
    /\ sessions' = RecordHistory(sessions, req[h].sid, "POST",
                                 "/subcall_results", <<107>>, now)
    /\ own' = [own EXCEPT ![req[h].sid].history =
                  record([history |-> @], "POST", "/subcall_results", <<107>>,
                         now).history]
    /\ replOp' = [endpoint |-> "POST /subcall_results", header |-> req[h].sid,
                  name |-> "", status |-> "ok", response |-> [ok |-> TRUE],
                  expected |-> [ok |-> TRUE]]
    /\ req' = [req EXCEPT ![h] = Idle]
    /\ UNCHANGED <<heap, projects, now, nextSid, fileText, buffers, bufOp>>
    /\ UNCHANGED <<tableVars, chunkVars, histVars, extVars, routeVars, auxVars>>

SubcallNext ==
    \/ \E h \in Tasks, sid \in {1, 2}, chunk_id \in {"k1", "k2"} :
          SubcallBegin(h, sid, chunk_id)
    \/ \E h \in Tasks : SubcallLock(h)
    \/ \E h \in Tasks : SubcallPush(h)
    \/ \E h \in Tasks : SubcallRecord(h)
    \/ \E sid \in {1, 2} : list_subcall_results(sid)
    \/ \E sid \in {1, 2} : clear_subcall_results(sid)

-----------------------------------------------------------------------------
(* index/pdf.rs: the converted-markdown cache of one PDF of the project.   *)
(* pdfFs is the file system as convert_pdf sees it: the source PDF and the *)
(* cache file <root>/.coderlm/converted/<rel_path>.md, each with its       *)
(* modification time, and the clock that stamps the files written.  The    *)
(* text of a file is the revision of the source it was made from; the      *)
(* converter is a function of the source.  pdfFs.converted is what the     *)
(* last successful convert_pdf answered, as long as the source has not     *)
(* been modified since.                                                    *)

NoFile == [exists |-> FALSE]

NoPdfCall == [op |-> "none"]

PdfParked ==
    /\ pdfFs = [src |-> [exists |-> FALSE, mtime |-> 0, text |-> 0],
                cache |-> NoFile, clock |-> 0,
                converted |-> [some |-> FALSE]]
    /\ pdfOp = NoPdfCall

PdfInit ==
    /\ pdfFs = [src |-> [exists |-> TRUE, mtime |-> 0, text |-> 0],
                cache |-> NoFile, clock |-> 0,
                converted |-> [some |-> FALSE]]
    /\ pdfOp = NoPdfCall

\* A comparison that takes a cache of the same instant as the source for
\* older.
StrictlyNewer(cache_mtime, pdf_mtime) == cache_mtime > pdf_mtime

\* `cache_mtime >= pdf_mtime`
NotOlder(cache_mtime, pdf_mtime) == cache_mtime >= pdf_mtime

\* get_cached_markdown: None when one of the two metadata calls fails
get_cached_markdown(fs) ==
    IF ~fs.src.exists THEN [some |-> FALSE]
    ELSE IF ~fs.cache.exists THEN [some |-> FALSE]
    ELSE IF NotOlder(fs.cache.mtime, fs.src.mtime)
         THEN [some |-> TRUE, value |-> fs.cache.text]
         ELSE [some |-> FALSE]

\* What running python3 with pymupdf4llm can give: the markdown, no process,
\* a non-zero exit status, or output that is not UTF-8.
ConverterOutcomes == {"ok", "spawn", "status", "utf8"}

\* convert_pdf; outcome is what the converter does if it is invoked
convert_pdf(outcome) ==
    LET cached == get_cached_markdown(pdfFs)
        written == [exists |-> TRUE, mtime |-> pdfFs.clock,
                    text |-> pdfFs.src.text]
    IN  /\ outcome = "ok" => pdfFs.src.exists
        /\ IF cached.some
           THEN /\ pdfFs' = [pdfFs EXCEPT !.converted =
                                [some |-> TRUE, value |-> cached.value]]
                /\ pdfOp' = [op |-> "convert_pdf", before |-> pdfFs,
                             invoked |-> FALSE, outcome |-> "none",
                             ok |-> TRUE, value |-> cached.value]
           ELSE IF outcome = "ok"
           THEN /\ pdfFs' = [pdfFs EXCEPT !.cache = written, !.converted =
                                [some |-> TRUE, value |-> written.text]]
                /\ pdfOp' = [op |-> "convert_pdf", before |-> pdfFs,
                             invoked |-> TRUE, outcome |-> outcome,
                             ok |-> TRUE, value |-> pdfFs.src.text]
           ELSE /\ pdfFs' = pdfFs
                /\ pdfOp' = [op |-> "convert_pdf", before |-> pdfFs,
                             invoked |-> TRUE, outcome |-> outcome,
                             ok |-> FALSE]
        /\ UNCHANGED notPdf

\* The user saves a new revision of the PDF.
PdfEdit ==
    /\ pdfFs.src.text < MaxEdits
    /\ pdfFs' = [pdfFs EXCEPT
                    !.src = [exists |-> TRUE, mtime |-> pdfFs.clock,
                             text |-> pdfFs.src.text + 1],
                    !.converted = [some |-> FALSE]]
    /\ pdfOp' = [op |-> "edit"]
    /\ UNCHANGED notPdf

\* The user deletes the PDF; the file tree still lists it until the next scan.
PdfDelete ==
    /\ pdfFs.src.exists
    /\ pdfFs' = [pdfFs EXCEPT !.src.exists = FALSE, !.converted = [some |-> FALSE]]
    /\ pdfOp' = [op |-> "delete"]
    /\ UNCHANGED notPdf

\* Time passes.
PdfTick ==
    /\ pdfFs.clock < MaxPdfClock
    /\ pdfFs' = [pdfFs EXCEPT !.clock = @ + 1]
    /\ pdfOp' = [op |-> "tick"]
    /\ UNCHANGED notPdf

PdfNext ==
    \/ \E outcome \in ConverterOutcomes : convert_pdf(outcome)
    \/ PdfEdit
    \/ PdfDelete
    \/ PdfTick

-----------------------------------------------------------------------------
(* server/routes.rs: create_session spawns a task that sleeps 500 ms and   *)
(* then loads the saved annotations of the project into its file tree and  *)
(* symbol table, while the extraction launched by get_or_create_project    *)
(* fills the same table.  ann.saved is symbol_definitions of               *)
(* <root>/.coderlm/annotations.json, ann.attached maps a key of the table  *)
(* to the `definition` of the Symbol stored under it (no entry: None),     *)
(* ann.pc is where the spawned task is and ann.queue the saved definitions *)
(* it has still to attach.                                                 *)

\* The keys a saved definition may be stored under.
AnnKeys == {make_key(f, n) : f \in Files, n \in Names}

\* The text of a saved definition.
AnnTexts == {"d"}

NoAnnotations ==
    [saved |-> EmptyMap, attached |-> EmptyMap, pc |-> "none", queue |-> <<>>]

AnnParked == ann = NoAnnotations

\* create_session has returned: the task is spawned and sleeps; the project
\* was annotated and saved in an earlier run of the server.
AnnInit ==
    \E keys \in SUBSET AnnKeys :
        ann = [saved |-> [k \in keys |-> "d"], attached |-> EmptyMap,
               pc |-> "spawned", queue |-> <<>>]

\* The extractor finds a symbol stored under key: it is among the symbols
\* of a file whose extraction returns Ok.
ExtractorFinds(key) ==
    \E i \in 1..Len(xt.paths) :
        /\ extract_symbols_from_file(xt.paths[i]).ok
        /\ \E j \in 1..Len(disk[xt.paths[i]].symbols) :
              LET sym == disk[xt.paths[i]].symbols[j]
              IN  make_key(sym.file, sym.name) = key

\* get_or_create_project launches extract_all_symbols once, when the
\* project is created.
ExtractOnce ==
    /\ xt.passes = 0
    /\ ExtractBegin

\* The sleep of the spawned task is over and load_annotations reads the
\* saved definitions; a missing file gives none.  The sleep is there "to
\* let symbol extraction start first": the load begins after the
\* extraction has.
LoadAnnotationsBegin ==
    /\ ann.pc = "spawned"
    /\ xt.pc # "idle" \/ xt.passes > 0
    /\ \E order \in IterOrders(DOMAIN ann.saved) :
          ann' = [ann EXCEPT !.pc = "loading", !.queue = order]
    /\ UNCHANGED <<tableVars, extVars>>
    /\ UNCHANGED notAnnotate

\* load_annotations, one saved symbol definition: it becomes the
\* definition of the symbol stored under its key; a key the table does not
\* hold has no symbol to carry it.
LoadAnnotationsAttach ==
    /\ ann.pc = "loading"
    /\ ann.queue # <<>>
    /\ LET key == Head(ann.queue)
       IN  ann' = [ann EXCEPT
                     !.queue = Tail(@),
                     !.attached = IF key \in DOMAIN symbols
                                  THEN MapPut(@, key, ann.saved[key])
                                  ELSE @]
    /\ UNCHANGED <<tableVars, extVars>>
    /\ UNCHANGED notAnnotate

\* load_annotations returns; the task ends and the result is dropped.
LoadAnnotationsReturn ==
    /\ ann.pc = "loading"
    /\ ann.queue = <<>>
    /\ ann' = [ann EXCEPT !.pc = "done"]
    /\ UNCHANGED <<tableVars, extVars>>
    /\ UNCHANGED notAnnotate

AnnotateNext ==
    \/ ExtractOnce
    \/ ExtractInsert
    \/ ExtractMark
    \/ ExtractCallSites
    \/ ExtractAddCaller
    \/ ExtractReturn
    \/ LoadAnnotationsBegin
    \/ LoadAnnotationsAttach
    \/ LoadAnnotationsReturn

-----------------------------------------------------------------------------
(* Specifications: one per subsystem *)

AuxParked == PdfParked /\ AnnParked

TableSpecInit == TableInit /\ RegistryInit /\ BufferParked /\ ChunkParked /\ HistoryParked /\ ExtractParked /\ RoutesParked /\ ReplParked /\ AuxParked

SpecTable == TableSpecInit /\ [][TableNext]_vars

SpecInsert == TableSpecInit /\ [][InsertNext]_vars

SpecSearch == TableSpecInit /\ [][SearchNext]_vars

SpecCallers == TableSpecInit /\ [][CallersNext]_vars

SpecRace == TableSpecInit /\ [][RaceNext]_vars

RegistrySpecInit == TableInit /\ RegistryInit /\ BufferParked /\ ChunkParked /\ HistoryParked /\ ExtractParked /\ RoutesParked /\ ReplParked /\ AuxParked

SpecRegistry == RegistrySpecInit /\ [][RegistryNext]_vars

BufferSpecInit == TableInit /\ RegistryInit /\ BufferInit /\ ChunkParked /\ HistoryParked /\ ExtractParked /\ RoutesParked /\ ReplParked /\ AuxParked

SpecBuffer == BufferSpecInit /\ [][BufferNext]_vars

ChunkSpecInit == TableInit /\ RegistryInit /\ BufferParked /\ ChunkInit /\ HistoryParked /\ ExtractParked /\ RoutesParked /\ ReplParked /\ AuxParked

SpecChunk == ChunkSpecInit /\ [][ChunkNext]_vars

HistorySpecInit ==
    TableInit /\ RegistryInit /\ BufferParked /\ ChunkParked /\ HistoryInit
        /\ ExtractParked /\ RoutesParked /\ ReplParked /\ AuxParked

SpecHistory == HistorySpecInit /\ [][HistoryNext]_vars

ExtractSpecInit ==
    TableInit /\ RegistryInit /\ BufferParked /\ ChunkParked /\ HistoryParked
        /\ ExtractInit /\ RoutesParked /\ ReplParked /\ AuxParked

SpecExtract == ExtractSpecInit /\ [][ExtractNext]_vars

RoutesSpecInit ==
    TableInit /\ RoutesInit /\ BufferParked /\ ChunkParked /\ HistoryParked
        /\ ExtractParked /\ ReplParked /\ AuxParked

ReplSpecInit ==
    TableInit /\ ReplInit /\ ChunkParked /\ HistoryParked /\ ExtractParked
        /\ RoutesParked /\ AuxParked

SpecRepl == ReplSpecInit /\ [][ReplNext]_vars

SpecSubcall == ReplSpecInit /\ [][SubcallNext]_vars

SpecRoutes == RoutesSpecInit /\ [][RoutesNext]_vars

SpecFailing == RoutesSpecInit /\ [][FailingNext]_vars

PdfSpecInit ==
    TableInit /\ RegistryInit /\ BufferParked /\ ChunkParked /\ HistoryParked
        /\ ExtractParked /\ RoutesParked /\ ReplParked /\ PdfInit
        /\ AnnParked

SpecPdf == PdfSpecInit /\ [][PdfNext]_vars

AnnotateSpecInit ==
    TableInit /\ RegistryInit /\ BufferParked /\ ChunkParked /\ HistoryParked
        /\ ExtractInit /\ RoutesParked /\ ReplParked /\ PdfParked /\ AnnInit

\* The extraction runs on the blocking pool and the load on the request
\* scheduler; both pools run every task handed to them, so a step that is
\* enabled is taken in the end.
SpecAnnotate ==
    AnnotateSpecInit /\ [][AnnotateNext]_vars /\ WF_vars(AnnotateNext)

-----------------------------------------------------------------------------
(* Properties *)

\* C1: after any sequence of insert and remove_file calls executed one at a
\* time, every key K of the primary store holding Symbol{file=F, name=N} is
\* in by_name[N] and in by_file[F], and neither index holds a key that is
\* absent from the primary store.
C1_IndexInvariant ==
    /\ \A k \in DOMAIN symbols :
          /\ symbols[k].name \in DOMAIN by_name
          /\ k \in by_name[symbols[k].name]
          /\ symbols[k].file \in DOMAIN by_file
          /\ k \in by_file[symbols[k].file]
    /\ \A n \in DOMAIN by_name : by_name[n] \subseteq DOMAIN symbols
    /\ \A f \in DOMAIN by_file : by_file[f] \subseteq DOMAIN symbols

\* What remove_file(F) is to leave behind.
NothingRefersTo(F) ==
    /\ \A k \in DOMAIN symbols : symbols[k].file # F
    /\ F \notin DOMAIN by_file
    /\ \A N \in DOMAIN by_name : make_key(F, N) \notin by_name[N]
    /\ \A c \in DOMAIN reverse_call_graph :
          \A i \in 1..Len(reverse_call_graph[c]) :
             reverse_call_graph[c][i].file # F

\* C3: after remove_file(F) returns (no concurrent writers), the primary
\* store holds no symbol of F, by_file has no entry for F, no set of by_name
\* holds a key of a symbol of F, and no CallerRef of F is left in the
\* reverse call graph.
C3_RemoveFileLeavesNothing ==
    lastOp.op = "remove_file" => NothingRefersTo(lastOp.file)

\* C2: insert is atomic for concurrent readers and writers: no thread can
\* see a state in the middle of one insert in which by_name or by_file
\* already holds the new key while the primary store does not hold the
\* symbol.
C2_InsertIsAtomic ==
    \A t \in DOMAIN inflight :
        LET sym == inflight[t].sym
            key == make_key(sym.file, sym.name)
            inName == sym.name \in DOMAIN by_name /\ key \in by_name[sym.name]
            inFile == sym.file \in DOMAIN by_file /\ key \in by_file[sym.file]
        IN  (inName \/ inFile) => key \in DOMAIN symbols

\* health: "projects": state.inner.projects.len()
ProjectCount == Cardinality(DOMAIN projects)

C5_SessionsPointAtProjects ==
    \A sid \in DOMAIN sessions : sessions[sid].project_path \in DOMAIN projects

\* C6: for every start and end, also start > end, buffer_from_file on an
\* indexed readable file of n lines completes without failure and stores the
\* lines [min(start,n), min(end,n)) joined with a newline; with start > end
\* the stored buffer is empty (size 0); buffer_peek over the whole buffer
\* returns exactly that content.
C6_FromFileClamps ==
    (bufOp.op = "buffer_from_file" /\ bufOp.file = "a.x") =>
        LET ls == lines(fileText)
            s == Min(bufOp.start, Len(ls))
            e == Min(bufOp.end, Len(ls))
            expected == join([i \in 1..(IF e > s THEN e - s ELSE 0) |-> ls[s + i]])
        IN  /\ bufOp.result = "ok"
            /\ bufOp.name \in DOMAIN buffers
            /\ buffers[bufOp.name].content = expected
            /\ bufOp.size = Len(expected)
            /\ bufOp.start > bufOp.end => bufOp.size = 0
            /\ SliceOk(expected, 0, Len(expected))
            /\ Slice(buffers[bufOp.name].content, 0, Len(expected)) = expected

\* C7: for every start and end, also start > end and values beyond the
\* length of the content, buffer_peek on an existing buffer never fails and
\* returns the bytes [min(start,len), min(end,len)) of the content (the
\* empty string when that range is empty); it reports an error only when
\* the buffer does not exist.
C7_PeekClamps ==
    bufOp.op = "buffer_peek" =>
        IF bufOp.name \in DOMAIN buffers
        THEN LET content == buffers[bufOp.name].content
                 s == Min(bufOp.start, Len(content))
                 e == Min(bufOp.end, Len(content))
             IN  /\ bufOp.result = "ok"
                 /\ bufOp.text = [i \in 1..(IF e > s THEN e - s ELSE 0) |->
                                     content[s + i]]
        ELSE bufOp.result = "err"

\* A chunk that holds one symbol larger than the budget and nothing else.
IsOversizeChunk(c) ==
    /\ Len(c.symbols) = 1
    /\ c.byte_end - c.byte_start > chMax
    /\ \E i \in 1..Len(chSymbols) :
        /\ c.symbols = <<SymName(i)>>
        /\ chSymbols[i] = <<c.byte_start, c.byte_end>>

ChunksReturned == chPc = "done" /\ chResult = "ok"

\* C8: the chunks semantic_chunks returns are in ascending byte_start order,
\* no chunk ends after the end of the file, and each chunk starts where the
\* one before it ends, or after it (never before it) when one of the two
\* holds a single oversize symbol.
C8_ChunksContiguous ==
    ChunksReturned =>
        /\ \A k \in 1..Len(chunks) : chunks[k].byte_end <= Len(chSource)
        /\ \A k \in 2..Len(chunks) :
            /\ chunks[k - 1].byte_start <= chunks[k].byte_start
            /\ \/ chunks[k].byte_start = chunks[k - 1].byte_end
               \/ /\ chunks[k].byte_start > chunks[k - 1].byte_end
                  /\ IsOversizeChunk(chunks[k]) \/ IsOversizeChunk(chunks[k - 1])

\* The file has one symbol, larger than the budget, with bytes before it and
\* after it.
OneOversizeSymbolInside ==
    /\ ChunksReturned
    /\ Len(chSymbols) = 1
    /\ chSymbols[1][1] > 0
    /\ chSymbols[1][2] < Len(chSource)
    /\ chSymbols[1][2] - chSymbols[1][1] > chMax

\* C9 as stated: for such a file semantic_chunks returns three chunks, the
\* bytes before the symbol, the symbol, and the bytes after it.
C9_ThreeChunks ==
    OneOversizeSymbolInside =>
        /\ Len(chunks) = 3
        /\ chunks[1].byte_start = 0
        /\ chunks[1].byte_end = chSymbols[1][1]
        /\ chunks[1].symbols = <<>>
        /\ chunks[2].byte_start = chSymbols[1][1]
        /\ chunks[2].byte_end = chSymbols[1][2]
        /\ chunks[2].symbols = <<SymName(1)>>
        /\ chunks[3].byte_start = chSymbols[1][2]
        /\ chunks[3].byte_end = Len(chSource)
        /\ chunks[3].symbols = <<>>

\* C9, amended: for such a file semantic_chunks returns two chunks, the
\* symbol's byte range listing the symbol, then the bytes from the symbol's
\* end to the end of the file with no symbol; the bytes before the symbol
\* are in no chunk.
C9_TwoChunks ==
    OneOversizeSymbolInside =>
        /\ Len(chunks) = 2
        /\ chunks[1].index = 0
        /\ chunks[1].byte_start = chSymbols[1][1]
        /\ chunks[1].byte_end = chSymbols[1][2]
        /\ chunks[1].symbols = <<SymName(1)>>
        /\ chunks[2].index = 1
        /\ chunks[2].byte_start = chSymbols[1][2]
        /\ chunks[2].byte_end = Len(chSource)
        /\ chunks[2].symbols = <<>>

C9_Witness ==
    /\ OneOversizeSymbolInside
    /\ chMax > 0
    /\ Len(chunks) = 2
    /\ chunks[1].byte_start > 0

\* The places of the compacted part of the history where a maximal run of
\* entries with equal (method, path) starts.
RunStarts(pre) ==
    {i \in 1..Len(pre) :
        i = 1 \/ pre[i - 1].method # pre[i].method \/ pre[i - 1].path # pre[i].path}

\* The size of the maximal run that starts at s.
RunSize(pre, s) ==
    LET later == {i \in RunStarts(pre) : i > s}
    IN  IF later = {} THEN Len(pre) + 1 - s
        ELSE (CHOOSE i \in later : \A j \in later : i <= j) - s

\* The last call was compact_history on a history longer than keep_recent.
Compacted == hOp.op = "compact" /\ Len(hOp.before) > hOp.keep_recent

C11_CountsAreLengths ==
    hOp.op = "compact" =>
        /\ hOp.original_count = Len(hOp.before)
        /\ hOp.compacted_count = Len(hOp.stored)
        /\ hOp.removed = hOp.original_count - hOp.compacted_count
        /\ hOp.removed >= 0

C11_Witness ==
    /\ hOp.op = "compact"
    /\ hOp.keep_recent = 1
    /\ hOp.original_count = 4
    /\ hOp.compacted_count = 2
    /\ hOp.removed = 2

\* C12: compact_history leaves the last keep_recent entries as they were, in
\* order, at the end of the history it stores, and leaves the whole history
\* as it was, with removed = 0, when it has at most keep_recent entries.
C12_RecentTailKept ==
    hOp.op = "compact" =>
        LET total == Len(hOp.before)
            keep == hOp.keep_recent
        IN  IF total <= keep
            THEN hOp.stored = hOp.before /\ hOp.removed = 0
            ELSE /\ Len(hOp.stored) >= keep
                 /\ SubSeq(hOp.stored, Len(hOp.stored) - keep + 1, Len(hOp.stored))
                      = SubSeq(hOp.before, total - keep + 1, total)

\* A compaction that shortened the history and kept a tail of two entries
\* which, compacted, would have become one.
C12_Witness ==
    /\ hOp.op = "compact"
    /\ hOp.keep_recent = 2
    /\ Len(hOp.before) = 4
    /\ Len(hOp.stored) = 3
    /\ hOp.before[3].method = hOp.before[4].method
    /\ hOp.before[3].path = hOp.before[4].path

RecordedOk == hOp.op = "record" /\ hOp.result = "ok"

LastEntry == session.history[Len(session.history)]

\* C13 as stated: the entry Session.record appends has a preview of at most
\* 200 characters, the preview passed in or its first 200 characters.
C13_PreviewAtMost200 ==
    RecordedOk =>
        /\ Len(LastEntry.response_preview) <= 200
        /\ LastEntry.response_preview
             = IF Len(hOp.preview) <= 200 THEN hOp.preview
               ELSE SubSeq(hOp.preview, 1, 200)

\* C13, amended: the entry Session.record appends has a preview of at most
\* 203 bytes: the preview passed in when that has at most 200 bytes, and
\* otherwise its first 200 bytes followed by "...".
C13_PreviewAtMost203 ==
    RecordedOk =>
        /\ Len(LastEntry.response_preview) <= 203
        /\ LastEntry.response_preview
             = IF Len(hOp.preview) <= 200 THEN hOp.preview
               ELSE SubSeq(hOp.preview, 1, 200) \o <<46, 46, 46>>

C13_Witness ==
    /\ RecordedOk
    /\ Len(hOp.preview) = 201
    /\ Len(LastEntry.response_preview) = 203

\* C14: search(q, limit) returns at most limit symbols, none when limit is
\* 0, and the name of every symbol it returns holds q, letter case aside.
C14_SearchBounded ==
    lastOp.op = "search" =>
        /\ Len(lastOp.results) <= lastOp.limit
        /\ lastOp.limit = 0 => lastOp.results = <<>>
        /\ \A k \in 1..Len(lastOp.results) :
            contains(to_lowercase(lastOp.results[k].name), to_lowercase(lastOp.query))

\* extract_all_symbols has returned n times or more and is not running.
PassesDone(n) == xt.pc = "idle" /\ xt.passes >= n

\* C15: a second run of extract_all_symbols on an unchanged project leaves
\* the whole symbol table, the reverse call graph included, as the first
\* run left it.
C15_ExtractTwiceSameTable ==
    PassesDone(2) => xt.last = xt.prev

\* C16: a second run of extract_all_symbols on an unchanged project leaves
\* the primary store, by_name and by_file with the key sets the first run
\* left.
C16_ExtractTwiceSameKeys ==
    PassesDone(2) =>
        /\ DOMAIN xt.last.symbols = DOMAIN xt.prev.symbols
        /\ xt.last.by_name = xt.prev.by_name
        /\ xt.last.by_file = xt.prev.by_file

\* A second run over two files with symbols, one of them with the same name
\* found twice.
C16_Witness ==
    /\ PassesDone(2)
    /\ \A f \in Files : disk[f].kind = "ok" /\ disk[f].symbols # <<>>
    /\ \E f \in Files :
        /\ Len(disk[f].symbols) = 2
        /\ disk[f].symbols[1].name = disk[f].symbols[2].name
    /\ DOMAIN xt.last.symbols # {}

\* C17: once extract_all_symbols has returned, symbols_extracted is true
\* for exactly the files for which the extractor produced a symbol list,
\* empty or not, and inserted it; a file whose extraction returned an error
\* and a file of a language without tree-sitter support have it false.
C17_FlagIffInserted ==
    PassesDone(1) =>
        \A f \in Files :
            /\ files[f].symbols_extracted <=> disk[f].kind \in {"ok", "unparsable"}
            /\ disk[f].kind \in {"unreadable", "skipped"}
                   => ~files[f].symbols_extracted

C17_Witness ==
    /\ PassesDone(1)
    /\ \E f \in Files : disk[f].kind = "unreadable" /\ ~files[f].symbols_extracted
    /\ \E f \in Files :
        disk[f].kind = "ok" /\ disk[f].symbols # <<>> /\ files[f].symbols_extracted

\* The caller references the table holds for callee, in order.
CallersOf(callee) ==
    IF callee \in DOMAIN reverse_call_graph THEN reverse_call_graph[callee] ELSE <<>>

\* C18: a file that cannot be read, decoded or parsed does not fail the
\* pass: the pass returns success, the table holds no symbol and no call
\* site of that file, and it holds the symbols and call sites of every
\* other file.
C18_FailedFileOnlyLosesItself ==
    PassesDone(1) =>
        /\ xt.result = "ok"
        /\ \A f \in Files :
            IF disk[f].kind = "ok"
            THEN /\ \A i \in 1..Len(disk[f].symbols) :
                      LET sym == disk[f].symbols[i]
                          key == make_key(f, sym.name)
                      IN  /\ key \in DOMAIN symbols
                          /\ sym.name \in DOMAIN by_name /\ key \in by_name[sym.name]
                          /\ f \in DOMAIN by_file /\ key \in by_file[f]
                 /\ \A i \in 1..Len(disk[f].sites) :
                      LET site == disk[f].sites[i]
                      IN  \E k \in 1..Len(CallersOf(site[1])) :
                            CallersOf(site[1])[k]
                              = [file |-> f, line |-> site[2], text |-> site[3]]
            ELSE /\ f \notin DOMAIN by_file
                 /\ \A key \in DOMAIN symbols : symbols[key].file # f
                 /\ \A callee \in DOMAIN reverse_call_graph :
                      \A k \in 1..Len(reverse_call_graph[callee]) :
                          reverse_call_graph[callee][k].file # f

C18_Witness ==
    /\ PassesDone(1)
    /\ xt.result = "ok"
    /\ \E f \in Files : disk[f].kind \in {"unreadable", "unparsable"}
    /\ \E f \in Files :
        /\ disk[f].kind = "ok"
        /\ disk[f].symbols # <<>>
        /\ disk[f].sites # <<>>
        /\ f \in DOMAIN by_file
    /\ reverse_call_graph # EmptyMap

\* The last request carried the id of a live session whose project is in the
\* registry.
ResolvedSession ==
    /\ http.endpoint # "none"
    /\ http.header \in DOMAIN http.before.sessions
    /\ http.before.sessions[http.header].project_path \in DOMAIN http.before.projects

\* C19: every request with the id of a live session, GET /history included,
\* sets last_active of that session and of the session's project to the
\* time of the request.
C19_EveryRequestTouches ==
    ResolvedSession =>
        /\ sessions[http.header].last_active = http.time
        /\ projects[sessions[http.header].project_path].last_active = http.time

\* The last request came without X-Session-Id.
MissingHeader == http.endpoint # "none" /\ http.header = NoHeader

StateUntouched == StateNow = http.before

\* C20 as stated: every endpoint other than /health, /roots and the
\* /sessions endpoints answers BadRequest to a request without X-Session-Id
\* and changes no state.
C20_MissingHeaderBadRequest ==
    MissingHeader => http.status = "BadRequest" /\ StateUntouched

\* C20, amended: every endpoint other than /health, /roots, the /sessions
\* endpoints and GET /history answers BadRequest to a request without
\* X-Session-Id and changes no state; GET /history without the header
\* answers with the histories of all sessions and changes no state.
C20_MissingHeaderExceptHistory ==
    MissingHeader =>
        /\ StateUntouched
        /\ IF http.endpoint = "GET /history"
           THEN http.status = "ok"
           ELSE http.status = "BadRequest"

\* A request without the header that would have changed the buffers and the
\* history, had it carried the id of the session.
C20_Witness ==
    /\ MissingHeader
    /\ http.endpoint = "DELETE /buffers/{name}"
    /\ http.status = "BadRequest"
    /\ "b" \in DOMAIN buffers
    /\ sessions[1].history # <<>>

AnnotationEndpoints ==
    {"POST /structure/define", "POST /structure/redefine",
     "POST /structure/mark", "POST /symbols/define", "POST /symbols/redefine"}

\* The last request asked to annotate a file that is not in the file tree
\* or a symbol that is not in the symbol table.
UnknownTarget ==
    /\ http.endpoint \in AnnotationEndpoints
    /\ http.arg \in {"ghost.x", make_key("a.x", "zz")}

Histories(ss) == [sid \in DOMAIN ss |-> ss[sid].history]

\* C21: a request to define, redefine or mark a file that is not in the file
\* tree, or to define or redefine a symbol that is not in the symbol table,
\* answers NotFound, leaves every annotation as it was and appends no
\* history entry.
C21_UnknownTargetNotFound ==
    UnknownTarget =>
        /\ http.status = "NotFound"
        /\ notes = http.before.notes
        /\ Histories(sessions) = Histories(http.before.sessions)

LoadEndpoints ==
    {"POST /buffers/from-file", "POST /buffers/from-symbol",
     "GET /semantic_chunks"}

\* The last request named a file, or a symbol of a file, that is in the
\* index and whose source could not be loaded.
LoadFailed ==
    /\ http.endpoint \in LoadEndpoints
    /\ http.arg \in {"gone.x", "bad.pdf", make_key("gone.x", "s2"),
                     make_key("bad.pdf", "s3")}

\* C22: when buffer_from_file, buffer_from_symbol or semantic_chunks finds
\* its file or symbol in the index and loading the source fails, the answer
\* is Internal and no buffer is created or replaced.
C22_LoadFailureIsInternal ==
    LoadFailed =>
        /\ http.status = "Internal"
        /\ buffers = http.before.buffers

WithoutStamps(ss) == [sid \in DOMAIN ss |-> [ss[sid] EXCEPT !.last_active = 0]]

\* C23: a session-scoped request answered with NotFound or BadRequest
\* changes nothing but last_active: the registry holds the same projects and
\* the same sessions (the counts /health reports), the annotations and the
\* buffers of the session are as before, and no session has a new history
\* entry.
C23_FailureChangesOnlyStamps ==
    http.status \in {"NotFound", "BadRequest"} =>
        /\ DOMAIN projects = DOMAIN http.before.projects
        /\ Cardinality(DOMAIN projects) = Cardinality(DOMAIN http.before.projects)
        /\ Cardinality(DOMAIN sessions) = Cardinality(DOMAIN http.before.sessions)
        /\ WithoutStamps(sessions) = WithoutStamps(http.before.sessions)
        /\ buffers = http.before.buffers
        /\ notes = http.before.notes

\* /symbols/implementation for a symbol of ghost.x answered NotFound in a
\* session that has a buffer, an annotation and a history entry; the request
\* set last_active.
C23_Witness ==
    /\ http.endpoint = "GET /symbols/implementation"
    /\ http.arg = make_key("ghost.x", "bar")
    /\ http.status = "NotFound"
    /\ "b" \in DOMAIN buffers
    /\ "a.x" \in DOMAIN notes.file_definitions
    /\ Len(sessions[1].history) = 2
    /\ sessions[1].last_active = http.time
    /\ sessions[1].last_active > http.before.sessions[1].last_active

\* The entries of an index whose set holds the key.
KeyHolders(index, key) == {k \in DOMAIN index : key \in index[k]}

\* What C29 says of an insert of sym whose key is already in the table.
ReplacesRecord(sym) ==
    (Insert(sym) /\ make_key(sym.file, sym.name) \in DOMAIN symbols) =>
        /\ Cardinality(DOMAIN symbols') = Cardinality(DOMAIN symbols)
        /\ Cardinality(KeyHolders(by_name', make_key(sym.file, sym.name))) = 1
        /\ Cardinality(KeyHolders(by_file', make_key(sym.file, sym.name))) = 1
        /\ get(symbols', sym.file, sym.name) = [some |-> TRUE, value |-> sym]

\* C29: inserting a symbol whose key file::name is already in the table
\* replaces the stored record: the table has as many records as before,
\* by_name and by_file each hold the key once, and get(file, name) returns
\* the record just inserted.
C29_InsertReplaces == [][\A sym \in Symbol : ReplacesRecord(sym)]_vars

\* The positions of the CallerRef of call n in the list of its callee.
Positions(n) ==
    LET callee == inflight[n].callee
    IN  IF callee \in DOMAIN reverse_call_graph
        THEN {i \in 1..Len(reverse_call_graph[callee]) :
                 reverse_call_graph[callee][i] = inflight[n].ref}
        ELSE {}

Returned == {n \in DOMAIN inflight : inflight[n].pc = "done"}

\* C27: concurrent add_caller calls are all preserved: the CallerRef of every
\* call that has returned is in the list of its callee exactly once, and of
\* two calls for one callee of which the first returned before the second
\* was made, the first comes first in the list.
C27_CallersPreserved ==
    /\ \A n \in Returned : Cardinality(Positions(n)) = 1
    /\ \A m, n \in Returned :
          (inflight[m].callee = inflight[n].callee /\ m \in inflight[n].after)
              => \A i \in Positions(m), j \in Positions(n) : i < j

\* Calls 1 and 2, for one callee, ran at the same time, call 3 for that
\* callee was made after both had returned, and all three have returned.
C27_Witness ==
    /\ Returned = {1, 2, 3}
    /\ inflight[1].callee = "c" /\ inflight[2].callee = "c"
    /\ inflight[3].callee = "c"
    /\ inflight[2].after = {}
    /\ inflight[3].after = {1, 2}
    /\ Len(reverse_call_graph["c"]) = 3

\* C28: get_callers(name) is absent exactly when no caller reference is
\* recorded for name, and is otherwise the recorded list; so after
\* add_caller and remove_file calls no callee is mapped to an empty list.
C28_AbsentIffNoCallers ==
    \A name \in Names :
        LET recorded == IF name \in DOMAIN reverse_call_graph
                        THEN reverse_call_graph[name] ELSE <<>>
        IN  get_callers(reverse_call_graph, name) =
                IF recorded = <<>> THEN [some |-> FALSE]
                ELSE [some |-> TRUE, value |-> recorded]

\* remove_file("a") has just taken the last call site of callee "c" and
\* left the call sites "b::c" has in another file.
C28_Witness ==
    /\ lastOp.op = "remove_file"
    /\ lastOp.file = "a"
    /\ "c" \in lastOp.callees
    /\ ~get_callers(reverse_call_graph, "c").some
    /\ get_callers(reverse_call_graph, "b::c").some
    /\ Len(get_callers(reverse_call_graph, "b::c").value) = 1

\* The last completed write of a name of the session that sent the last
\* request: a set or create with its value, or a delete (or nothing yet).
Latest(kind, name) ==
    IF <<kind, name>> \in DOMAIN own[replOp.header].wrote
    THEN own[replOp.header].wrote[<<kind, name>>]
    ELSE [set |-> FALSE]

\* C24: within one session a read sees the last completed write: var_get(n)
\* returns the value of the last var_set(n, v) unless a var_delete(n) came
\* after it, buffer_peek and buffer_info of n give the content and size of
\* the last create of n, and check_final reports set, with the last value,
\* exactly when the variable Final is set.
C24_ReadsSeeLatestWrite ==
    /\ replOp.endpoint = "GET /vars/{name}" =>
          replOp.response = IF Latest("var", replOp.name).set
                            THEN [value |-> Latest("var", replOp.name).value]
                            ELSE [err |-> "NotFound"]
    /\ replOp.endpoint = "GET /vars/final" =>
          replOp.response = IF Latest("var", "Final").set
                            THEN [is_set |-> TRUE,
                                  value |-> Latest("var", "Final").value]
                            ELSE [is_set |-> FALSE]
    /\ replOp.endpoint = "GET /buffers/{name}/peek" =>
          replOp.response = IF Latest("buffer", replOp.name).set
                            THEN [content |-> Latest("buffer", replOp.name).value]
                            ELSE [err |-> "NotFound"]
    /\ replOp.endpoint = "GET /buffers/{name}" =>
          IF Latest("buffer", replOp.name).set
          THEN /\ replOp.status = "ok"
               /\ replOp.response.size_bytes =
                      Len(Latest("buffer", replOp.name).value)
               /\ replOp.response.preview = Latest("buffer", replOp.name).value
          ELSE replOp.response = [err |-> "NotFound"]

\* Final was set to 1 and then to 2, and check_final answers 2.
C24_Witness ==
    /\ replOp.endpoint = "GET /vars/final"
    /\ replOp.response = [is_set |-> TRUE, value |-> 2]
    /\ Len(sessions[replOp.header].history) = 2

\* The endpoints that create or delete a buffer.
BufferWrites ==
    {"POST /buffers", "POST /buffers/from-file", "POST /buffers/from-symbol",
     "DELETE /buffers/{name}"}

\* The buffer n of the ReplState at arc is gone or has another content
\* after the step.
BufferChanged(arc, n) ==
    /\ n \in DOMAIN heap[arc].buffers
    /\ \/ n \notin DOMAIN heap'[arc].buffers
       \/ heap'[arc].buffers[n].content # heap[arc].buffers[n].content

\* C25: the content of a stored buffer changes only through a create or a
\* delete of that name that succeeds; peeks, infos, lists, variable and
\* subcall requests, failed creates and requests for other names leave it
\* as it is.
C25_BufferContentFrame ==
    [][\A arc \in DOMAIN heap, n \in PadNames :
          BufferChanged(arc, n) =>
              /\ replOp'.endpoint \in BufferWrites
              /\ replOp'.name = n
              /\ replOp'.status = "ok"
              /\ require_repl(replOp'.header) = arc]_vars

\* Buffer b was created, then buffer c, and a from-file of b that failed
\* has left both as they were.
C25_Witness ==
    /\ replOp.endpoint = "POST /buffers/from-file"
    /\ replOp.name = "b"
    /\ replOp.status = "NotFound"
    /\ "c" \in DOMAIN heap[require_repl(replOp.header)].buffers
    /\ "b" \in DOMAIN heap[require_repl(replOp.header)].buffers
    /\ heap[require_repl(replOp.header)].buffers["b"].content = <<98>>

\* C26: the subcall results of a session are the results added to it since
\* the last clear, each once, in the order in which the adds took effect,
\* also when adds run at the same time; list_subcall_results returned that
\* list as it was when it was called.
C26_SubcallResultsKept ==
    /\ \A sid \in DOMAIN sessions :
          heap[require_repl(sid)].subcall_results = own[sid].repl.subcall_results
    /\ replOp.endpoint = "GET /subcall_results" =>
          replOp.response = replOp.expected

\* Two adds to one session ran at the same time, the one that began second
\* took effect first, and the list that was returned holds both.
C26_Witness ==
    /\ replOp.endpoint = "GET /subcall_results"
    /\ Len(replOp.response.results) = 2
    /\ replOp.response.results[1].created_at > replOp.response.results[2].created_at
    /\ \A h \in Tasks : req[h].pc = "idle"

\* C30: a session's buffers, variables, subcall results and history are
\* what its own requests made them, whatever the other session of the same
\* project did, and the answer to its request is the answer its own
\* requests alone lead to.
C30_ScratchpadsPerSession ==
    /\ \A sid \in DOMAIN sessions :
          /\ heap[require_repl(sid)] = own[sid].repl
          /\ sessions[sid].history = own[sid].history
    /\ replOp.response = replOp.expected

\* Both sessions have a buffer b, with different contents, and session 1
\* is shown its own.
C30_Witness ==
    /\ replOp.endpoint = "GET /buffers/{name}/peek"
    /\ replOp.header = 1
    /\ replOp.response = [content |-> <<97>>]
    /\ heap[require_repl(2)].buffers = [n \in {"b"} |-> [content |-> <<98>>, source |-> "computed"]]
    /\ sessions[1].project_path = sessions[2].project_path
    /\ Len(sessions[2].history) = 1

-----------------------------------------------------------------------------
(* The converted-markdown cache *)

\* The cache file exists and is not older than the source.
CacheCurrent(fs) ==
    fs.src.exists /\ fs.cache.exists /\ fs.cache.mtime >= fs.src.mtime

\* What one call of convert_pdf did, against the file system it found.
ConvertPdfContract ==
    pdfOp.op = "convert_pdf" =>
        /\ ~pdfOp.invoked <=> CacheCurrent(pdfOp.before)
        /\ ~pdfOp.invoked =>
              /\ pdfOp.ok /\ pdfOp.value = pdfOp.before.cache.text
              /\ pdfFs.cache = pdfOp.before.cache
        /\ pdfOp.invoked /\ pdfOp.outcome = "ok" =>
              /\ pdfOp.ok /\ pdfOp.value = pdfOp.before.src.text
              /\ pdfFs.cache = [exists |-> TRUE, mtime |-> pdfOp.before.clock,
                                text |-> pdfOp.value]
        /\ pdfOp.invoked /\ pdfOp.outcome # "ok" =>
              ~pdfOp.ok /\ pdfFs.cache = pdfOp.before.cache

\* As long as the source is not modified after a successful convert_pdf, a
\* following call is served from the cache, with the text answered before.
ServedUntilModified ==
    pdfFs.converted.some =>
        /\ CacheCurrent(pdfFs)
        /\ get_cached_markdown(pdfFs) = pdfFs.converted

-----------------------------------------------------------------------------
(* The length of a history between compactions *)

\* h2 is h1 with one entry appended.
OneAppended(h1, h2) ==
    Len(h2) = Len(h1) + 1 /\ SubSeq(h2, 1, Len(h1)) = h1

\* C32: a request other than POST /history/compact leaves the history of
\* every session as it was, or appends exactly one entry to the history of
\* the session that made the request; so the length of a history never
\* decreases between two compactions.
C32_HistoryGrowsBetweenCompactions ==
    [][http'.endpoint # "POST /history/compact" =>
          \A sid \in DOMAIN sessions :
              /\ sid \in DOMAIN sessions'
              /\ \/ sessions'[sid].history = sessions[sid].history
                 \/ /\ sid = http'.header
                    /\ OneAppended(sessions[sid].history, sessions'[sid].history)]_vars

\* A request that appended its entry behind the entry of a compaction.
C32_Witness ==
    /\ http.endpoint = "DELETE /buffers/{name}" /\ http.status = "ok"
    /\ OneAppended(http.before.sessions[1].history, sessions[1].history)
    /\ \E i \in 1..Len(http.before.sessions[1].history) :
          http.before.sessions[1].history[i].path = "/history/compact"

-----------------------------------------------------------------------------
(* remove_file beside insert *)

\* The key of sym is in the primary store if and only if it is in
\* by_name[name] and in by_file[file] of sym.
KeyIndexed(sym) ==
    LET key == make_key(sym.file, sym.name)
    IN  key \in DOMAIN symbols <=>
           /\ sym.name \in DOMAIN by_name /\ key \in by_name[sym.name]
           /\ sym.file \in DOMAIN by_file /\ key \in by_file[sym.file]

\* C33: whenever every call of remove_file(F) and of insert of a symbol of F
\* has returned, whatever the order of their steps was, a key is in the
\* primary store if and only if it is in by_name[name] and in by_file[file]
\* of its symbol.
C33_IndexInvariantAfterRace ==
    inflight = EmptyMap => \A sym \in RaceSymbols : KeyIndexed(sym)

-----------------------------------------------------------------------------
(* The byte budget of semantic_chunks *)

\* C34: every chunk semantic_chunks returns is at most max_chunk_bytes long,
\* unless it is the chunk of a single symbol that is itself larger than
\* max_chunk_bytes.
C34_ChunksWithinBudget ==
    ChunksReturned =>
        \A k \in 1..Len(chunks) :
            \/ IsOversizeChunk(chunks[k])
            \/ chunks[k].byte_end - chunks[k].byte_start <= chMax

-----------------------------------------------------------------------------
(* The progress of the byte-window fallback *)

\* C35: every turn of the loop of simple_chunks moves start forward, so the
\* loop, which runs while start < source.len(), ends and semantic_chunks
\* returns a finite list, also when max_chunk_bytes is 0 or smaller than
\* the next character.
C35_FallbackAdvances ==
    [][chPc = "simple" /\ chPc' = "simple" /\ chunks' # chunks =>
          chStart' > chStart]_vars

-----------------------------------------------------------------------------
(* The symbols of the chunks *)

\* The places (chunk, position in its symbol list) where the i-th symbol of
\* the file is listed.
ListedAt(i) ==
    {p \in (1..Len(chunks)) \X (1..MaxSyms) :
        /\ p[2] <= Len(chunks[p[1]].symbols)
        /\ chunks[p[1]].symbols[p[2]] = SymName(i)}

\* C36: every symbol of the file is listed in exactly one of the chunks
\* semantic_chunks returns, once, and the byte range of that chunk contains
\* the byte range of the symbol.
C36_EverySymbolInOneChunk ==
    ChunksReturned =>
        \A i \in 1..Len(chSymbols) :
            /\ Cardinality(ListedAt(i)) = 1
            /\ \A p \in ListedAt(i) :
                  /\ chunks[p[1]].byte_start <= chSymbols[i][1]
                  /\ chSymbols[i][2] <= chunks[p[1]].byte_end

-----------------------------------------------------------------------------
(* The counts of repeated compactions *)

\* Every recorded call has a timestamp of its own, the entries of a history
\* are in the order of their timestamps and a summary entry keeps the
\* timestamp of the first call of its group: the i-th entry stands for the
\* calls recorded from its timestamp up to the timestamp of the next entry.
CallsStoodFor(i) ==
    LET h == session.history
    IN  (IF i < Len(h) THEN h[i + 1].timestamp ELSE hClock) - h[i].timestamp

\* A summary entry: "[N calls compacted]"
IsSummary(e) ==
    \E n \in 2..MaxStamp : e.response_preview = CompactedPreview(n)

\* C37: across repeated compactions, with calls recorded in between, the N
\* of a summary entry "[N calls compacted]" is the number of recorded calls
\* the entry stands for.
C37_SummaryCountsCalls ==
    \A i \in 1..Len(session.history) :
        IsSummary(session.history[i]) =>
            session.history[i].response_preview = CompactedPreview(CallsStoodFor(i))

-----------------------------------------------------------------------------
(* The extraction flag and the inserts of the file *)

\* The key of the i-th symbol the extractor produced for f is in the primary
\* store, in by_name of its name and in by_file of f.
InTable(f, i) ==
    LET sym == disk[f].symbols[i]
        key == make_key(f, sym.name)
    IN  /\ key \in DOMAIN symbols
        /\ sym.name \in DOMAIN by_name /\ key \in by_name[sym.name]
        /\ f \in DOMAIN by_file /\ key \in by_file[f]

\* C39: in every state of a pass of extract_all_symbols and after it, a file
\* whose symbols_extracted is true has every symbol the extractor produced
\* for it in the symbol table already.
C39_FlagAfterInserts ==
    \A f \in DOMAIN files :
        files[f].symbols_extracted =>
            \A i \in 1..Len(disk[f].symbols) : InTable(f, i)

\* The middle of the first pass: one file with two symbols is marked, the
\* inserts of the next file have begun and are not done.
C39_Witness ==
    /\ xt.pc = "insert" /\ xt.passes = 0
    /\ \E f \in DOMAIN files :
          files[f].symbols_extracted /\ Len(disk[f].symbols) = 2
    /\ xt.queue # <<>>
    /\ ~files[Head(xt.queue)].symbols_extracted
    /\ xt.j = 2
    /\ Len(disk[Head(xt.queue)].symbols) = 2

\* C38: after create_session on a project with saved annotations, every
\* saved symbol definition whose symbol the extractor finds is eventually
\* attached, for every interleaving of the background annotation load with
\* the symbol extraction, and an insert by the extractor never discards a
\* definition that is already attached.
C38_SavedDefinitionsAttached ==
    /\ \A key \in AnnKeys :
          (key \in DOMAIN ann.saved /\ ExtractorFinds(key))
              => <>(key \in DOMAIN ann.attached)
    /\ [][\A key \in DOMAIN ann.attached : key \in DOMAIN ann'.attached]_vars

\* The chunks pushed so far by simple_chunks tile the source from byte 0 up
\* to the next start; each is non-empty and no longer than the budget, and
\* one that stops short of the end of its window stops right after the last
\* newline of the window.
FallbackTiles ==
    /\ \A k \in 1..Len(chunks) :
          /\ chunks[k].byte_start = IF k = 1 THEN 0 ELSE chunks[k - 1].byte_end
          /\ chunks[k].byte_start < chunks[k].byte_end
          /\ chunks[k].byte_end - chunks[k].byte_start <= chMax
          /\ LET start == chunks[k].byte_start
                 end == floor_char_boundary(chSource,
                                            Min(start + chMax, Len(chSource)))
                 window == Slice(chSource, start, end)
             IN  (end < Len(chSource) /\ \E m \in 1..Len(window) : window[m] = 10)
                    => /\ chSource[chunks[k].byte_end] = 10
                       /\ \A m \in (chunks[k].byte_end + 1)..end :
                             chSource[m] # 10
    /\ chStart = IF chunks = <<>> THEN 0 ELSE chunks[Len(chunks)].byte_end

\* C40: on a file without symbols and with max_chunk_bytes >= 1 the
\* fallback chunks partition the file: the first starts at byte 0, each
\* starts where the one before it ended, the last ends at the file size,
\* every chunk is non-empty and at most max_chunk_bytes long, and a chunk
\* that does not reach the end of the file ends right after the last
\* newline of its window when the window holds one.
C40_FallbackPartitions ==
    (chFile = "a.x" /\ chSymbols = <<>> /\ chMax >= 1 /\ chPc # "call") =>
        /\ FallbackTiles
        /\ (chPc = "done" /\ chSource # <<>>) =>
              /\ chunks # <<>>
              /\ chunks[Len(chunks)].byte_end = Len(chSource)

====
